---- MODULE Spec2Model ----
(***************************************************************************)
(* The streaming protocol adapters of dyad-with-opencode: the OpenCode,    *)
(* Gemini and Letta CLI providers (doStream and doGenerate), their         *)
(* line-buffered parser, their event normalizers and the module-level      *)
(* session state.                                                          *)
(*                                                                         *)
(* A behaviour is about one adapter: the caller may set the session key,   *)
(* issues doStream or doGenerate (which spawns the child process), the     *)
(* child's standard output arrives in chunks cut at arbitrary byte         *)
(* positions, and the process closes with an exit code (or fails to        *)
(* spawn).  The callbacks the calls register are the actions.  Spec is one *)
(* stream call; the other specifications add the abort signal, standard    *)
(* error, the generate mode, sequences of calls and a second call open at  *)
(* the same time.                                                          *)
(***************************************************************************)
EXTENDS Integers, Sequences, FiniteSets, TLC

VARIABLES
    adapter,              \* which provider module the behaviour is about
    currentSessionKey,    \* module-level `currentSessionKey` ("" = undefined)
    sessionMap,           \* module-level `sessionMap` ("" = no entry), OpenCode and Letta
    initializedSessions,  \* module-level `initializedSessions`, Gemini
    shouldResumeSession,  \* module-level `shouldResumeSession`, Gemini
    proc,                 \* the child process: "none", "running", "failed", "closed"
    stdout,               \* bytes the child has written and the pipe has not delivered yet
    written,              \* everything the child writes during the call
    exitCode,             \* the code given to the `close` callback: "0", "1", "null"
                          \* (killed by a signal), and "" while the process runs
    call,                 \* the closure state of the doStream call
    mode,                 \* the latest call: "stream", "generate", "" before any
    args,                 \* the resume flag in the argument vector of the latest
                          \* call (<<>> when it has none)
    ncalls,               \* how many calls have been issued one after the other
    gen,                  \* the closure state and the promise of the doGenerate call
    aborted,              \* the abort signal of the latest call has fired
    kills,                \* how many times the child was sent SIGTERM
    stderrSeen,           \* how many chunks of standard error have arrived
    peer,                 \* a second stream call of the adapter, open at the same time
    abortedAtIssue,       \* the abort signal was already aborted when the latest
                          \* call was issued (its abort event fired before)
    prompt,               \* the `prompt` argument handed to extractUserMessage
    message,              \* what extractUserMessage returned for it
    output,               \* the `output` argument handed to parseOpenCodeModels
    models,               \* what parseOpenCodeModels returned for it
    geminiCli             \* the process, the closure and the callbacks of a
                          \* streamGeminiCliResponse call

vars == <<adapter, currentSessionKey, sessionMap, initializedSessions,
          shouldResumeSession, proc, stdout, written, exitCode, call,
          mode, args, ncalls, gen, aborted, kills, stderrSeen, peer,
          abortedAtIssue, prompt, message, output, models, geminiCli>>

\* The abort signal, standard error and the second call.
envVars == <<aborted, kills, stderrSeen, peer>>

\* The prompt flattening utility.
promptVars == <<prompt, message>>

\* The model listing utility.
listVars == <<output, models>>

(***************************************************************************)
(* Bounds of the model.                                                    *)
(***************************************************************************)
MaxLines == 3
MaxCalls == 2
MaxShortLines == 2
MaxStderr == 1
MaxMessages == 3
MaxOutput == 5

(***************************************************************************)
(* The wire.  The child's output is a sequence of atoms:                   *)
(*   NL        the byte 0x0A                                               *)
(*   SP        a whitespace byte other than 0x0A and 0x20 (a tab, 0x0D)    *)
(*   Space     the byte 0x20                                               *)
(*   Banner    the ASCII text "[STARTUP]" (or "Loaded cached")             *)
(*   Ch(c)     one byte: "a", "b" are ASCII letters, "C3" "A9" are the two *)
(*             bytes of the UTF-8 encoding of U+00E9                       *)
(*   Json(r)   the ASCII text of the JSON object r: the whole object when  *)
(*             r has no string payload, and otherwise the object up to the *)
(*             opening quote of its payload; the Ch atoms that follow are  *)
(*             the payload                                                 *)
(*   End       the quote and the braces that close an object after its     *)
(*             payload                                                     *)
(* After decoding, Ch("E9") is the character U+00E9 and Ch("FFFD") is the  *)
(* replacement character U+FFFD.                                           *)
(***************************************************************************)
NL == [k |-> "nl"]
SP == [k |-> "sp"]
Space == [k |-> "sp", c |-> " "]
Banner == [k |-> "banner"]
Ch(c) == [k |-> "ch", c |-> c]
Json(r) == [k |-> "json", r |-> r]
End == [k |-> "end"]

\* Buffer.prototype.toString(): UTF-8 decoding of ONE chunk.  A lead byte not
\* followed by its continuation byte inside the same chunk, and a continuation
\* byte without its lead byte, each decode to U+FFFD.
RECURSIVE toString(_)
toString(bytes) ==
    IF bytes = <<>> THEN <<>>
    ELSE LET h == Head(bytes) IN
         IF h.k = "ch" /\ h.c = "C3"
         THEN IF Len(bytes) >= 2 /\ bytes[2].k = "ch" /\ bytes[2].c = "A9"
              THEN <<Ch("E9")>> \o toString(SubSeq(bytes, 3, Len(bytes)))
              ELSE <<Ch("FFFD")>> \o toString(Tail(bytes))
         ELSE IF h.k = "ch" /\ h.c = "A9"
              THEN <<Ch("FFFD")>> \o toString(Tail(bytes))
              ELSE <<h>> \o toString(Tail(bytes))

\* String.prototype.split("\n"): the pieces between the newlines, one more
\* piece than there are newlines.
RECURSIVE splitFrom(_, _)
splitFrom(s, piece) ==
    IF s = <<>> THEN <<piece>>
    ELSE IF Head(s).k = "nl"
         THEN <<piece>> \o splitFrom(Tail(s), <<>>)
         ELSE splitFrom(Tail(s), Append(piece, Head(s)))

split(s) == splitFrom(s, <<>>)

\* String.prototype.trim()
IsSpace(a) == a.k \in {"sp", "nl"}

RECURSIVE trimStart(_)
trimStart(s) ==
    IF s # <<>> /\ IsSpace(Head(s)) THEN trimStart(Tail(s)) ELSE s

RECURSIVE trimEnd(_)
trimEnd(s) ==
    IF s # <<>> /\ IsSpace(s[Len(s)]) THEN trimEnd(SubSeq(s, 1, Len(s) - 1)) ELSE s

trim(s) == trimEnd(trimStart(s))

\* The field that holds a record's string payload ("" when it has none).
PayloadField(r) ==
    IF "text" \in DOMAIN r THEN "text"
    ELSE IF "content" \in DOMAIN r THEN "content"
    ELSE IF "result" \in DOMAIN r THEN "result"
    ELSE ""

\* JSON.parse: does the text parse, and to what.  A text parses when it is one
\* whole object: an object without payload and nothing else, or an object
\* with its payload characters and its closing quote and braces.  A record
\* cut after its header or inside its payload does not parse.
JsonValid(t) ==
    /\ t # <<>>
    /\ t[1].k = "json"
    /\ IF PayloadField(t[1].r) = "" THEN Len(t) = 1
       ELSE /\ Len(t) >= 2
            /\ t[Len(t)] = End
            /\ \A i \in 2..(Len(t) - 1) : t[i].k = "ch"

JsonParse(t) ==
    LET r == t[1].r
        f == PayloadField(r)
    IN  IF f = "" THEN r
        ELSE [r EXCEPT ![f] = [i \in 1..(Len(t) - 2) |-> t[i + 1].c]]

\* String.prototype.startsWith / slice(n)
startsWith(s, prefix) ==
    /\ Len(prefix) <= Len(s)
    /\ SubSeq(s, 1, Len(prefix)) = prefix

slice(s, n) == SubSeq(s, n + 1, Len(s))

(***************************************************************************)
(* Stream parts (the chunks given to controller.enqueue) and the stream's  *)
(* error outcome.  `delta` is a sequence of characters; the fixed texts    *)
(* the adapters write themselves are one symbol each:                      *)
(*   <<"Thinking">>            "*Thinking...*" indicator                   *)
(*   <<"tool-start", id>>      "**Tool: <title>**" announcement            *)
(*   <<"tool-completed", id>>  "**<title>** completed" narration           *)
(*   <<"tool-failed", id>>     "**<tool>** failed: ..." narration          *)
(*   <<"tool-return", id>>     Letta's fenced tool output                  *)
(* (id is the call id the text was written for).                           *)
(***************************************************************************)
Part(type, delta, reason, inTok, outTok) ==
    [type |-> type, delta |-> delta, finishReason |-> reason,
     inputTokens |-> inTok, outputTokens |-> outTok]

TextStart == Part("text-start", <<>>, "", 0, 0)
TextDelta(d) == Part("text-delta", d, "", 0, 0)
TextEnd == Part("text-end", <<>>, "", 0, 0)
Finish(reason, inTok, outTok) == Part("finish", <<>>, reason, inTok, outTok)
\* controller.error(e): not a chunk, the stream's terminal error; `reason`
\* tells which error it is.
StreamError(reason) == Part("error", <<>>, reason, 0, 0)

(***************************************************************************)
(* The closure state of one doStream call, and the ReadableStream behind   *)
(* `controller`:                                                           *)
(*   ctrl    "readable"; "closing" (close() was called while parts were    *)
(*           still queued: the stream closes when they have been read);    *)
(*           "closed"; "errored"                                           *)
(*   queue   "empty"; "nonempty" (parts are queued, unread); "waiting"     *)
(*           (empty, and the consumer has a read request pending, which    *)
(*           the next part fulfils without being queued)                   *)
(*   dropped controller.error() discarded queued parts nobody had read     *)
(*   events  the parts enqueued and the error outcome, in order            *)
(*   seen    the records JSON.parse returned in the stdout callback, in    *)
(*           order (the records handed to the normalizer)                  *)
(*   residual  the record JSON.parse returned in the close callback, if    *)
(*           the residual buffer held one (a sequence of length 0 or 1)    *)
(*   uncaught  a callback of the call let an exception escape              *)
(***************************************************************************)
NoCall ==
    [buffer |-> <<>>, lastContent |-> <<>>, lastTextContent |-> <<>>,
     streamClosed |-> FALSE, textStartSent |-> FALSE,
     totalInputTokens |-> 0, totalOutputTokens |-> 0,
     activeTools |-> {}, ctrl |-> "readable", queue |-> "empty",
     dropped |-> FALSE, events |-> <<>>, seen |-> <<>>, residual |-> <<>>,
     uncaught |-> FALSE]

\* What a callback works on: the call's closure, the module-level state it can
\* reach, and the control state of the running callback (`thrown`: an
\* exception is propagating to the enclosing catch; `returned`: the callback
\* has executed `return`).
World(a, c, key, map, inits) ==
    [adapter |-> a, call |-> c, currentSessionKey |-> key, sessionMap |-> map,
     initializedSessions |-> inits, thrown |-> FALSE, returned |-> FALSE]

\* An assignment to a variable of the closure (skipped while an exception
\* propagates).
set(w, f, v) == IF w.thrown THEN w ELSE [w EXCEPT !.call[f] = v]

\* ReadableStreamDefaultController.enqueue: throws a TypeError unless the
\* stream is readable and close() has not been called.
enqueue(w, chunk) ==
    IF w.thrown THEN w
    ELSE IF w.call.ctrl = "readable"
         THEN [w EXCEPT !.call.events = Append(@, chunk),
                        !.call.queue = IF @ = "waiting" THEN "empty" ELSE "nonempty"]
         ELSE [w EXCEPT !.thrown = TRUE]

\* ReadableStreamDefaultController.close: throws unless the stream is readable
\* and close() has not been called; the stream closes at once when nothing is
\* queued.
close(w) ==
    IF w.thrown THEN w
    ELSE IF w.call.ctrl = "readable"
         THEN [w EXCEPT !.call.ctrl = IF w.call.queue = "nonempty" THEN "closing"
                                      ELSE "closed",
                        !.call.queue = IF @ = "nonempty" THEN @ ELSE "empty"]
         ELSE [w EXCEPT !.thrown = TRUE]

\* ReadableStreamDefaultController.error: errors a stream that has not closed
\* yet, discarding its queue, and does nothing (it does not throw) on a closed
\* or errored one.
error(w, reason) ==
    IF w.thrown THEN w
    ELSE IF w.call.ctrl \in {"readable", "closing"}
         THEN [w EXCEPT !.call.ctrl = "errored",
                        !.call.queue = "empty",
                        !.call.dropped = (w.call.queue = "nonempty"),
                        !.call.events = Append(@, StreamError(reason))]
         ELSE w

\* `if (!textStartSent) { controller.enqueue(text-start); textStartSent = true }`
sendTextStart(w) ==
    IF w.thrown \/ w.call.textStartSent THEN w
    ELSE set(enqueue(w, TextStart), "textStartSent", TRUE)

\* `if (textStartSent) controller.enqueue(text-end)`
sendTextEnd(w) ==
    IF w.thrown \/ ~w.call.textStartSent THEN w
    ELSE enqueue(w, TextEnd)

\* `if (!streamClosed) { streamClosed = true; controller.close() }`
closeOnce(w) ==
    IF w.thrown \/ w.call.streamClosed THEN w
    ELSE close(set(w, "streamClosed", TRUE))

(***************************************************************************)
(* OpenCode                                                                *)
(***************************************************************************)
\* storeSessionId(key, id)
storeSessionId(w, key, id) ==
    IF w.thrown THEN w ELSE [w EXCEPT !.sessionMap[key] = id]

\* A parser that refuses the records of another session than the stored one.
parseAndStoreOwnSessionId(w, event) ==
    IF /\ ~w.thrown
       /\ w.currentSessionKey # ""
       /\ event.sessionID # ""
       /\ w.sessionMap[w.currentSessionKey] \notin {"", event.sessionID}
    THEN [w EXCEPT !.thrown = TRUE]
    ELSE IF /\ ~w.thrown
            /\ w.currentSessionKey # ""
            /\ event.sessionID # ""
            /\ w.sessionMap[w.currentSessionKey] = ""
         THEN storeSessionId(w, w.currentSessionKey, event.sessionID)
         ELSE w

\* A parser that stores the id of every record.
parseAndStoreLastSessionId(w, event) ==
    IF ~w.thrown /\ w.currentSessionKey # "" /\ event.sessionID # ""
    THEN storeSessionId(w, w.currentSessionKey, event.sessionID)
    ELSE w

\* parseAndStoreSessionId(event): the first id seen for the current key wins
parseAndStoreSessionId(w, event) ==
    IF /\ ~w.thrown
       /\ w.currentSessionKey # ""
       /\ event.sessionID # ""
       /\ w.sessionMap[w.currentSessionKey] = ""
    THEN storeSessionId(w, w.currentSessionKey, event.sessionID)
    ELSE w

\* `if (event.type === "step_start")`
ocStepStart(w) == enqueue(sendTextStart(w), TextDelta(<<"Thinking">>))

\* A normalizer that forwards every cumulative text whole.
ocDeltaWhole(content, last) == content

\* The delta of a cumulative text against the last text seen.
ocDelta(content, last) ==
    IF startsWith(content, last) THEN slice(content, Len(last)) ELSE content

\* `if (event.type === "text")`
ocText(w, event) ==
    LET content == event.text
        w1 == sendTextStart(w)
    IN  IF w1.thrown \/ content = w1.call.lastTextContent THEN w1
        ELSE LET delta == ocDelta(content, w1.call.lastTextContent)
                 w2 == set(w1, "lastTextContent", content)
             IN  IF delta # <<>> THEN enqueue(w2, TextDelta(delta)) ELSE w2

\* `if (event.type === "tool_use")`
ocToolUse(w, event) ==
    LET w1 == sendTextStart(w)
        id == event.callID
    IN  IF w1.thrown THEN w1
        ELSE IF event.status \in {"pending", "running"}
        THEN IF id \in w1.call.activeTools THEN w1
             ELSE enqueue(set(w1, "activeTools", w1.call.activeTools \cup {id}),
                          TextDelta(<<"tool-start", id>>))
        ELSE IF event.status = "completed"
        THEN enqueue(set(w1, "activeTools", w1.call.activeTools \ {id}),
                     TextDelta(<<"tool-completed", id>>))
        ELSE IF event.status = "error"
        THEN enqueue(set(w1, "activeTools", w1.call.activeTools \ {id}),
                     TextDelta(<<"tool-failed", id>>))
        ELSE w1

\* `totalInputTokens += ...; totalOutputTokens += ...`
ocAddTokens(w, event) ==
    LET w1 == set(w, "totalInputTokens", w.call.totalInputTokens + event.input)
    IN  set(w1, "totalOutputTokens", w1.call.totalOutputTokens + event.output)

\* A normalizer that every step_finish record terminates.
ocStepFinishAlways(w, event) ==
    LET w1 == ocAddTokens(w, event)
    IN  IF w1.thrown THEN w1
        ELSE LET w2 == sendTextEnd(w1)
                 w3 == enqueue(w2, Finish("stop", w2.call.totalInputTokens,
                                          w2.call.totalOutputTokens))
             IN  closeOnce(w3)

\* `if (event.type === "step_finish")`
ocStepFinish(w, event) ==
    LET w1 == ocAddTokens(w, event)
    IN  IF w1.thrown \/ event.reason # "stop" THEN w1
        ELSE LET w2 == sendTextEnd(w1)
                 w3 == enqueue(w2, Finish("stop", w2.call.totalInputTokens,
                                          w2.call.totalOutputTokens))
             IN  closeOnce(w3)

\* `if (event.type === "error") { controller.error(...); streamClosed = true; return }`
ocError(w) ==
    LET w1 == set(error(w, "protocol"), "streamClosed", TRUE)
    IN  IF w1.thrown THEN w1 ELSE [w1 EXCEPT !.returned = TRUE]

\* The body of the try block of the stdout callback, after JSON.parse.
ocEvent(w, event) ==
    LET w1 == parseAndStoreSessionId(w, event)
    IN  IF event.type = "error" THEN ocError(w1)
        ELSE IF event.type = "step_start" THEN ocStepStart(w1)
        ELSE IF event.type = "text" THEN ocText(w1, event)
        ELSE IF event.type = "tool_use" THEN ocToolUse(w1, event)
        ELSE IF event.type = "step_finish" THEN ocStepFinish(w1, event)
        ELSE w1

(***************************************************************************)
(* Gemini                                                                  *)
(***************************************************************************)
\* markSessionInitialized()
markSessionInitialized(w) ==
    IF w.thrown \/ w.currentSessionKey = "" THEN w
    ELSE [w EXCEPT !.initializedSessions = @ \cup {w.currentSessionKey}]

\* Reading a property of `undefined` throws a TypeError.
throw(w) == [w EXCEPT !.thrown = TRUE]

\* `if (event.type === "message" && event.role === "assistant")`
gmMessage(w, event) ==
    LET content == event.content
        w1 == sendTextStart(w)
    IN  IF w1.thrown THEN w1
        ELSE IF event.delta
        THEN LET deltaText == slice(content, Len(w1.call.lastContent))
                 w2 == set(w1, "lastContent", content)
             IN  IF deltaText # <<>> THEN enqueue(w2, TextDelta(deltaText)) ELSE w2
        ELSE enqueue(w1, TextDelta(content))

\* `else if (event.type === "tool_use")`
gmToolUse(w, event) ==
    enqueue(sendTextStart(w), TextDelta(<<"tool-start", event.tool_id>>))

\* `else if (event.type === "tool_result")`
gmToolResult(w, event) ==
    enqueue(w, TextDelta(<<IF event.status = "success" THEN "tool-completed"
                                                       ELSE "tool-failed",
                           event.tool_id>>))

\* The usage object of the finish part: `event.stats.input_tokens` throws when
\* the record has no `stats`.
gmFinish(w, event) ==
    IF w.thrown THEN w
    ELSE IF ~event.stats THEN throw(w)
    ELSE enqueue(w, Finish("stop", event.input_tokens, event.output_tokens))

\* `else if (event.type === "result")`
gmResult(w, event) ==
    LET w1 == IF event.status = "success" THEN markSessionInitialized(w) ELSE w
    IN  IF event.status = "error"
        THEN set(error(w1, "protocol"), "streamClosed", TRUE)
        ELSE closeOnce(gmFinish(sendTextEnd(w1), event))

\* The body of the try block of the stdout callback, after JSON.parse.
gmEvent(w, event) ==
    IF event.type = "message" /\ event.role = "assistant" THEN gmMessage(w, event)
    ELSE IF event.type = "tool_use" THEN gmToolUse(w, event)
    ELSE IF event.type = "tool_result" THEN gmToolResult(w, event)
    ELSE IF event.type = "result" THEN gmResult(w, event)
    ELSE w

(***************************************************************************)
(* Letta                                                                   *)
(***************************************************************************)
\* `if (currentSessionKey && event.agent_id) { if (!existingAgentId) storeSessionId(...) }`
ltStoreAgent(w, event) ==
    IF /\ ~w.thrown
       /\ w.currentSessionKey # ""
       /\ event.agent_id # ""
       /\ w.sessionMap[w.currentSessionKey] = ""
    THEN storeSessionId(w, w.currentSessionKey, event.agent_id)
    ELSE w

\* `event.message_type === "assistant_message" && event.content`
ltAssistant(w, event) ==
    IF event.content = <<>> THEN w
    ELSE enqueue(sendTextStart(w), TextDelta(event.content))

\* `event.message_type === "tool_call" && event.tool_call`
ltToolCall(w, event) ==
    LET callId == IF event.id # "" THEN event.id ELSE event.name
        w1 == sendTextStart(w)
    IN  IF ~event.tool_call THEN w
        ELSE IF w1.thrown \/ callId \in w1.call.activeTools THEN w1
        ELSE enqueue(set(w1, "activeTools", w1.call.activeTools \cup {callId}),
                     TextDelta(<<"tool-start", callId>>))

\* `event.message_type === "tool_return" && event.tool_return !== undefined`
ltToolReturn(w, event) ==
    IF ~event.tool_return THEN w
    ELSE enqueue(sendTextStart(w), TextDelta(<<"tool-return", event.id>>))

\* `totalInputTokens = event.prompt_tokens || 0; totalOutputTokens = ...`
ltUsageStatistics(w, event) ==
    set(set(w, "totalInputTokens", event.prompt_tokens),
        "totalOutputTokens", event.completion_tokens)

\* `if (event.type === "message")`
ltMessage(w, event) ==
    IF event.message_type = "assistant_message" THEN ltAssistant(w, event)
    ELSE IF event.message_type = "tool_call" THEN ltToolCall(w, event)
    ELSE IF event.message_type = "tool_return" THEN ltToolReturn(w, event)
    ELSE IF event.message_type = "usage_statistics" THEN ltUsageStatistics(w, event)
    ELSE w

\* `x = event.usage.<count> || x`
orElse(n, old) == IF n # 0 THEN n ELSE old

\* `if (event.usage) { totalInputTokens = ... || totalInputTokens; ... }`
ltResultUsage(w, event) ==
    IF w.thrown \/ ~event.usage THEN w
    ELSE set(set(w, "totalInputTokens",
                 orElse(event.prompt_tokens, w.call.totalInputTokens)),
             "totalOutputTokens",
             orElse(event.completion_tokens, w.call.totalOutputTokens))

\* `if (!textStartSent && event.result) { text-start; text-delta(event.result) }`
ltFallbackText(w, event) ==
    IF w.thrown \/ w.call.textStartSent \/ event.result = <<>> THEN w
    ELSE enqueue(sendTextStart(w), TextDelta(event.result))

\* `if (event.type === "result")`
ltResult(w, event) ==
    LET w1 == ltFallbackText(ltResultUsage(ltStoreAgent(w, event), event), event)
        w2 == sendTextEnd(w1)
        w3 == IF w2.thrown THEN w2
              ELSE enqueue(w2, Finish(IF event.is_error THEN "error" ELSE "stop",
                                      w2.call.totalInputTokens,
                                      w2.call.totalOutputTokens))
    IN  closeOnce(w3)

\* The body of the try block of the stdout callback, after JSON.parse.
ltEvent(w, event) ==
    IF event.type = "init" THEN ltStoreAgent(w, event)
    ELSE IF event.type = "message" THEN ltMessage(w, event)
    ELSE IF event.type = "result" THEN ltResult(w, event)
    ELSE w

(***************************************************************************)
(* The callbacks of doStream                                               *)
(***************************************************************************)
\* What the catch block leaves: the exception is swallowed.
catch(w) == [w EXCEPT !.thrown = FALSE]

\* The lines the loop skips before the try block: blank ones and, in the
\* Gemini adapter, the startup and cache banners.
skipped(w, trimmedLine) ==
    \/ trimmedLine = <<>>
    \/ w.adapter = "gemini" /\ Head(trimmedLine).k = "banner"

\* The normalizer of the adapter.
normalize(w, event) ==
    IF w.adapter = "opencode" THEN ocEvent(w, event)
    ELSE IF w.adapter = "gemini" THEN gmEvent(w, event)
    ELSE ltEvent(w, event)

\* A loop that a line that is not JSON ends.
handleLineOrStop(w, line) ==
    LET trimmedLine == trim(line)
    IN  IF skipped(w, trimmedLine) THEN w
        ELSE IF ~JsonValid(trimmedLine) THEN [w EXCEPT !.returned = TRUE]
        ELSE LET event == JsonParse(trimmedLine)
             IN  catch(normalize([w EXCEPT !.call.seen = Append(@, event)], event))

\* One iteration of `for (const line of lines)`.
handleLine(w, line) ==
    LET trimmedLine == trim(line)
    IN  IF skipped(w, trimmedLine) \/ ~JsonValid(trimmedLine) THEN w
        ELSE LET event == JsonParse(trimmedLine)
             IN  catch(normalize([w EXCEPT !.call.seen = Append(@, event)], event))

\* `for (const line of lines) { ... }`, left early by `return`.
RECURSIVE forLines(_, _)
forLines(w, lines) ==
    IF lines = <<>> \/ w.returned THEN w
    ELSE forLines(handleLine(w, Head(lines)), Tail(lines))

\* `buffer += data.toString()`
appendChunk(buffer, data) == buffer \o toString(data)

\* process.stdout.on("data", ...)
onStdoutData(w, data) ==
    LET lines == split(appendChunk(w.call.buffer, data))
        w1 == set(w, "buffer", lines[Len(lines)])
        w2 == forLines(w1, SubSeq(lines, 1, Len(lines) - 1))
    IN  [w2 EXCEPT !.returned = FALSE]

\* process.on("error", ...)
onError(w) ==
    IF w.call.streamClosed THEN w
    ELSE error(set(w, "streamClosed", TRUE), "spawn")

\* The finish part the OpenCode and Letta close handlers synthesize.
exitFinish(w, code) ==
    Finish(IF code = "0" THEN "stop" ELSE "error",
           w.call.totalInputTokens, w.call.totalOutputTokens)

\* `if (!streamClosed) { text-end; finish; streamClosed = true; controller.close() }`
finishOnClose(w, code) ==
    IF w.call.streamClosed THEN w
    ELSE close(set(enqueue(sendTextEnd(w), exitFinish(w, code)), "streamClosed", TRUE))

\* The residual buffer at close: parsed when it is not blank and the stream is
\* still open; `body` is what the handler does with the record.
residualEvent(w) == JsonParse(trim(w.call.buffer))

hasResidual(w) ==
    /\ trim(w.call.buffer) # <<>>
    /\ ~w.call.streamClosed
    /\ JsonValid(trim(w.call.buffer))

sawResidual(w) == [w EXCEPT !.call.residual = <<residualEvent(w)>>]

\* OpenCode, process.on("close", ...)
ocResidual(w) ==
    IF ~hasResidual(w) THEN w
    ELSE LET event == residualEvent(w)
             w1 == parseAndStoreSessionId(sawResidual(w), event)
         IN  catch(IF event.type = "step_finish" THEN ocAddTokens(w1, event) ELSE w1)

ocClose(w, code) == finishOnClose(ocResidual(w), code)

\* Gemini, process.on("close", ...)
gmResidualFinish(w, event) ==
    enqueue(sendTextEnd(w),
            Finish(IF event.status = "success" THEN "stop" ELSE "error",
                   IF event.stats THEN event.input_tokens ELSE 0,
                   IF event.stats THEN event.output_tokens ELSE 0))

gmResidual(w) ==
    IF ~hasResidual(w) THEN w
    ELSE LET event == residualEvent(w)
             w1 == sawResidual(w)
         IN  IF event.type # "result" THEN w1
             ELSE catch(gmResidualFinish(
                     IF event.status = "success" THEN markSessionInitialized(w1)
                     ELSE w1, event))

gmClose(w, code) ==
    IF code # "0" /\ code # "null" /\ ~w.call.streamClosed
    THEN error(set(w, "streamClosed", TRUE), "exit")
    ELSE closeOnce(gmResidual(w))

\* Letta, process.on("close", ...)
ltResidual(w) ==
    IF ~hasResidual(w) THEN w
    ELSE LET event == residualEvent(w)
             w1 == sawResidual(w)
         IN  IF event.type = "result" THEN catch(ltResultUsage(w1, event)) ELSE w1

ltClose(w, code) == finishOnClose(ltResidual(w), code)

onClose(w, code) ==
    IF w.adapter = "opencode" THEN ocClose(w, code)
    ELSE IF w.adapter = "gemini" THEN gmClose(w, code)
    ELSE ltClose(w, code)

\* ReadableStream.start(controller), before the callbacks are registered: the
\* Gemini and Letta adapters open the text block and write the indicator.
startStream(w) ==
    IF w.adapter = "opencode" THEN w
    ELSE enqueue(set(enqueue(w, TextStart), "textStartSent", TRUE),
                 TextDelta(<<"Thinking">>))

\* Letta, process.stderr.on("data", ...): `kind` is "auth" when the chunk
\* contains "Missing LETTA_API_KEY" or "authenticate".  The enqueue calls are
\* outside any try block.
ltStderr(w, kind) ==
    IF kind # "auth" THEN w
    ELSE LET w1 == enqueue(sendTextStart(w), TextDelta(<<"auth-error">>))
         IN  IF w1.thrown THEN set(catch(w1), "uncaught", TRUE) ELSE w1

\* process.stderr.on("data", ...): OpenCode and Gemini only log.
onStderrData(w, kind) == IF w.adapter = "letta" THEN ltStderr(w, kind) ELSE w

(***************************************************************************)
(* The callbacks of doGenerate.  The closure (output, totals) and the      *)
(* promise are the `call` of the world the callbacks work on.  `output` is *)
(* a sequence of decoded atoms.                                            *)
(***************************************************************************)
\* A string payload as the characters it is made of.
asText(chars) == [i \in 1..Len(chars) |-> Ch(chars[i])]

\* resolve(value) and reject(error) of the promise: the first one settles it,
\* the later ones do nothing.
resolve(w, text, promptTokens, completionTokens) ==
    IF w.thrown \/ w.call.settled # "pending" THEN w
    ELSE [w EXCEPT !.call.settled = "resolved", !.call.text = text,
                   !.call.promptTokens = promptTokens,
                   !.call.completionTokens = completionTokens]

\* A promise that the last rejection settles.
rejectLast(w, err) ==
    IF w.thrown THEN w
    ELSE [w EXCEPT !.call.settled = "rejected", !.call.error = err]

reject(w, err) ==
    IF w.thrown \/ w.call.settled # "pending" THEN w
    ELSE [w EXCEPT !.call.settled = "rejected", !.call.error = err]

\* OpenCode, one iteration of `for (const line of lines)` of doGenerate.
ocGenLine(w, line) ==
    IF trim(line) = <<>> \/ ~JsonValid(trim(line)) THEN w
    ELSE LET event == JsonParse(trim(line))
             w1 == parseAndStoreSessionId(w, event)
         IN  catch(IF event.type = "text" THEN set(w1, "output", asText(event.text))
                   ELSE IF event.type = "step_finish" THEN ocAddTokens(w1, event)
                   ELSE w1)

RECURSIVE ocGenLines(_, _)
ocGenLines(w, lines) ==
    IF lines = <<>> THEN w ELSE ocGenLines(ocGenLine(w, Head(lines)), Tail(lines))

\* OpenCode, stdout.on("data", ...) of doGenerate: the chunk is split in lines
\* on its own, nothing is kept for the next chunk.
ocGenData(w, data) == ocGenLines(w, split(toString(data)))

\* Gemini, stdout.on("data", ...) of doGenerate: `output += data.toString()`
gmGenData(w, data) == set(w, "output", w.call.output \o toString(data))

\* Letta, stdout.on("data", ...) of doGenerate: the chunk is parsed as one
\* JSON text, and kept as raw text when it does not parse.
ltGenData(w, data) ==
    LET text == toString(data) IN
    IF ~JsonValid(trim(text)) THEN set(w, "output", w.call.output \o text)
    ELSE LET response == JsonParse(trim(text))
             w1 == IF response.text # <<>>
                   THEN set(w, "output", asText(response.text)) ELSE w
             w2 == IF response.agentId # "" /\ w1.currentSessionKey # ""
                   THEN storeSessionId(w1, w1.currentSessionKey, response.agentId)
                   ELSE w1
         IN  IF ~response.usage THEN w2
             ELSE set(set(w2, "totalInputTokens", response.input_tokens),
                      "totalOutputTokens", response.output_tokens)

onGenData(w, data) ==
    IF w.adapter = "opencode" THEN ocGenData(w, data)
    ELSE IF w.adapter = "gemini" THEN gmGenData(w, data)
    ELSE ltGenData(w, data)

\* A call that does not listen to the process's error event.
onGenErrorUnheard(w) == w

\* process.on("error", reject)
onGenError(w) == reject(w, "spawn")

\* The abort listener of doGenerate: `process.kill("SIGTERM"); reject(new Error("Aborted"))`
onGenAbort(w) == reject(w, "Aborted")

\* Gemini, close handler of doGenerate after a zero exit code: the first line
\* of the output that parses is the response.
gmGenIsCandidate(line) ==
    /\ trim(line) # <<>>
    /\ Head(trim(line)).k # "banner"

RECURSIVE gmGenFind(_)
gmGenFind(lines) ==
    IF lines = <<>> THEN <<>>
    ELSE IF gmGenIsCandidate(Head(lines)) /\ JsonValid(trim(Head(lines)))
         THEN <<JsonParse(trim(Head(lines)))>>
         ELSE gmGenFind(Tail(lines))

gmGenClose(w) ==
    LET w1 == markSessionInitialized(w)
        found == gmGenFind(split(w1.call.output))
    IN  IF found = <<>> THEN reject(w1, "nojson")
        ELSE LET response == found[1]
             IN  resolve(w1, asText(response.response),
                         IF response.stats THEN response.prompt ELSE 0,
                         IF response.stats THEN response.candidates ELSE 0)

\* process.on("close", ...) of doGenerate
onGenClose(w, code) ==
    IF code # "0" THEN reject(w, "exit")
    ELSE IF w.adapter = "gemini" THEN gmGenClose(w)
    ELSE resolve(w, w.call.output, w.call.totalInputTokens, w.call.totalOutputTokens)

(***************************************************************************)
(* What the child processes write.  A line is a record's text, its payload *)
(* bytes and the newline.  Each adapter's vocabulary is split in profiles  *)
(* (text, tools, steps and usage); the output of one call is up to         *)
(* MaxLines lines of one profile, the last one with or without its         *)
(* newline.                                                                *)
(***************************************************************************)
Line(r, payload) ==
    IF PayloadField(r) = "" THEN <<Json(r), NL>>
    ELSE <<Json(r)>> \o payload \o <<End, NL>>

a == Ch("a")
b == Ch("b")
JunkLine == <<a, NL>>
BlankLine == <<SP, NL>>

\* OpenCode records (OpenCodeStreamEvent)
ocTextRec(sid) == [type |-> "text", sessionID |-> sid, text |-> <<>>]
ocStepStartRec == [type |-> "step_start", sessionID |-> "s1"]
ocToolRec(id, status) ==
    [type |-> "tool_use", sessionID |-> "s1", callID |-> id, status |-> status]
ocStepFinishRec(reason, inTok, outTok) ==
    [type |-> "step_finish", sessionID |-> "s1", reason |-> reason,
     input |-> inTok, output |-> outTok]
ocErrorRec(sid) == [type |-> "error", sessionID |-> sid]

ocTextLines ==
    { Line(ocTextRec("s1"), <<>>),
      Line(ocTextRec("s1"), <<a>>),
      Line(ocTextRec("s1"), <<a, b>>),
      Line(ocTextRec("s1"), <<b>>),
      Line(ocTextRec("s1"), <<Ch("C3"), Ch("A9")>>),
      Line(ocStepFinishRec("stop", 1, 2), <<>>) }

ocToolLines ==
    { Line(ocToolRec("c1", "pending"), <<>>),
      Line(ocToolRec("c1", "running"), <<>>),
      Line(ocToolRec("c1", "completed"), <<>>),
      Line(ocToolRec("c1", "error"), <<>>),
      Line(ocToolRec("c2", "pending"), <<>>),
      Line(ocStepFinishRec("stop", 1, 1), <<>>) }

ocStepLines ==
    { Line(ocStepStartRec, <<>>),
      Line(ocTextRec("s2"), <<a>>),
      Line(ocStepFinishRec("tool-calls", 1, 2), <<>>),
      Line(ocStepFinishRec("stop", 2, 1), <<>>),
      Line(ocErrorRec("s1"), <<>>),
      Line(ocErrorRec(""), <<>>),
      JunkLine,
      BlankLine }

\* Gemini records (GeminiStreamEvent); `stats` tells whether the result
\* record carries its stats object.
gmInitRec == [type |-> "init"]
gmMessageRec(role, delta) ==
    [type |-> "message", role |-> role, delta |-> delta, content |-> <<>>]
gmToolUseRec(id) == [type |-> "tool_use", tool_id |-> id]
gmToolResultRec(id, status) ==
    [type |-> "tool_result", tool_id |-> id, status |-> status]
gmResultRec(status, stats, inTok, outTok) ==
    [type |-> "result", status |-> status, stats |-> stats,
     input_tokens |-> inTok, output_tokens |-> outTok]

gmTextLines ==
    { Line(gmMessageRec("assistant", TRUE), <<a>>),
      Line(gmMessageRec("assistant", TRUE), <<a, b>>),
      Line(gmMessageRec("assistant", TRUE), <<b>>),
      Line(gmMessageRec("assistant", FALSE), <<a>>),
      Line(gmMessageRec("user", FALSE), <<a>>),
      Line(gmResultRec("success", TRUE, 1, 2), <<>>) }

gmStepLines ==
    { Line(gmInitRec, <<>>),
      Line(gmToolUseRec("c1"), <<>>),
      Line(gmToolResultRec("c1", "success"), <<>>),
      Line(gmMessageRec("assistant", FALSE), <<a>>),
      Line(gmResultRec("success", TRUE, 2, 1), <<>>),
      Line(gmResultRec("success", FALSE, 0, 0), <<>>),
      Line(gmResultRec("error", TRUE, 1, 1), <<>>),
      <<Banner, NL>>,
      JunkLine }

\* Letta records (LettaStreamEvent); `tool_call`, `tool_return` and `usage`
\* tell whether the record carries that property.
ltInitRec(agent) == [type |-> "init", agent_id |-> agent]
ltAssistantRec ==
    [type |-> "message", message_type |-> "assistant_message", content |-> <<>>]
ltToolCallRec(id, name) ==
    [type |-> "message", message_type |-> "tool_call", id |-> id, name |-> name,
     tool_call |-> TRUE]
ltToolReturnRec(id) ==
    [type |-> "message", message_type |-> "tool_return", id |-> id,
     tool_return |-> TRUE]
ltUsageRec(inTok, outTok) ==
    [type |-> "message", message_type |-> "usage_statistics",
     prompt_tokens |-> inTok, completion_tokens |-> outTok]
ltResultRec(isError, agent, usage, inTok, outTok) ==
    [type |-> "result", is_error |-> isError, agent_id |-> agent, usage |-> usage,
     prompt_tokens |-> inTok, completion_tokens |-> outTok, result |-> <<>>]

ltTextLines ==
    { Line(ltInitRec("s1"), <<>>),
      Line(ltAssistantRec, <<a>>),
      Line(ltAssistantRec, <<>>),
      Line(ltToolCallRec("c1", "n1"), <<>>),
      Line(ltToolCallRec("", "n1"), <<>>),
      Line(ltToolReturnRec("c1"), <<>>),
      Line(ltResultRec(FALSE, "s2", FALSE, 0, 0), <<a>>) }

ltUsageLines ==
    { Line(ltUsageRec(2, 1), <<>>),
      Line(ltUsageRec(1, 2), <<>>),
      Line(ltUsageRec(0, 0), <<>>),
      Line(ltResultRec(FALSE, "s1", TRUE, 3, 0), <<>>),
      Line(ltResultRec(TRUE, "s1", FALSE, 0, 0), <<>>),
      Line(ltAssistantRec, <<a>>),
      JunkLine }

\* The responses the Gemini and Letta processes write in `--output-format json`.
gmResponseRec(stats, promptTokens, candidates) ==
    [response |-> <<"a">>, stats |-> stats, prompt |-> promptTokens,
     candidates |-> candidates]
ltResponseRec(agentId, usage, inTok, outTok) ==
    [text |-> <<>>, agentId |-> agentId, usage |-> usage,
     input_tokens |-> inTok, output_tokens |-> outTok]

Adapters == {"opencode", "gemini", "letta"}

\* The lines of the short outputs, used where calls follow one another.
ShortLines(adp) ==
    IF adp = "opencode"
    THEN { Line(ocTextRec("s1"), <<a>>),
           Line(ocTextRec("s2"), <<a, b>>),
           Line(ocStepFinishRec("stop", 1, 2), <<>>) }
    ELSE IF adp = "gemini"
    THEN { Line(gmMessageRec("assistant", TRUE), <<a>>),
           Line(gmResultRec("success", TRUE, 1, 2), <<>>),
           Line(gmResultRec("error", TRUE, 1, 1), <<>>) }
    ELSE { Line(ltInitRec("s1"), <<>>),
           Line(ltAssistantRec, <<a>>),
           Line(ltResultRec(FALSE, "s2", TRUE, 3, 0), <<>>) }

\* The lines a process writes in generate mode.
GenLines(adp) ==
    IF adp = "opencode" THEN ShortLines(adp) \cup {Line(ocErrorRec("s1"), <<>>)}
    ELSE IF adp = "gemini"
    THEN { <<Banner, NL>>,
           Line(gmResponseRec(TRUE, 1, 2), <<>>),
           JunkLine }
    ELSE { Line(ltResponseRec("s1", TRUE, 1, 2), <<a>>),
           Line(ltResponseRec("s2", FALSE, 0, 0), <<>>),
           JunkLine }

Profiles(adp) ==
    IF adp = "opencode" THEN {ocTextLines, ocToolLines, ocStepLines}
    ELSE IF adp = "gemini" THEN {gmTextLines, gmStepLines}
    ELSE {ltTextLines, ltUsageLines}

RECURSIVE Flatten(_)
Flatten(ls) == IF ls = <<>> THEN <<>> ELSE Head(ls) \o Flatten(Tail(ls))

\* The outputs of at most MaxLines lines of a profile.
Outputs(profile) ==
    UNION { { Flatten(ls) : ls \in [1..n -> profile] } : n \in 0..MaxLines }

\* The same output with the newline of its last line not written.
Unterminated(out) ==
    IF out # <<>> /\ out[Len(out)] = NL THEN SubSeq(out, 1, Len(out) - 1) ELSE out

\* The outputs of at most MaxShortLines of the given lines, the last one with
\* or without its newline.
ShortOutputs(lines) ==
    UNION { { Flatten(ls) : ls \in [1..n -> lines] } \cup
            { Unterminated(Flatten(ls)) : ls \in [1..n -> lines] } :
            n \in 0..MaxShortLines }

SessionKeys == {"K"}

(***************************************************************************)
(* Prompt flattening: extractUserMessage.  A JavaScript string is the      *)
(* sequence of its pieces: "a" and "b" stand for message texts, the other  *)
(* pieces are the literal texts of the template strings.  A value carries  *)
(* its JavaScript type in `kind`: "string", "array" or "other" (undefined, *)
(* an object).                                                             *)
(***************************************************************************)
StringContent(text) == [kind |-> "string", text |-> text, parts |-> <<>>]
ArrayContent(parts) == [kind |-> "array", text |-> <<>>, parts |-> parts]
OtherContent == [kind |-> "other", text |-> <<>>, parts |-> <<>>]
TextPart(text) == [type |-> "text", text |-> text]
ImagePart == [type |-> "image", text |-> <<>>]
Message(role, content) == [role |-> role, content |-> content]

StringPrompt(text) == [kind |-> "string", text |-> text, msgs |-> <<>>]
ArrayPrompt(msgs) == [kind |-> "array", text |-> <<>>, msgs |-> msgs]
OtherPrompt == [kind |-> "other", text |-> <<"undefined">>, msgs |-> <<>>]
NoPrompt == [kind |-> "none", text |-> <<>>, msgs |-> <<>>]
NoMessage == [returned |-> FALSE, text |-> <<>>]

\* Array.prototype.join("\n") over strings.
RECURSIVE join(_)
join(strings) ==
    IF strings = <<>> THEN <<>>
    ELSE IF Len(strings) = 1 THEN strings[1]
    ELSE strings[1] \o <<"\n">> \o join(Tail(strings))

\* `for (const msg of prompt)`: the content of the first system message whose
\* content is a string ("" when there is none).
RECURSIVE systemPromptOf(_)
systemPromptOf(msgs) ==
    IF msgs = <<>> THEN <<>>
    ELSE IF msgs[1].role = "system" /\ msgs[1].content.kind = "string"
         THEN msgs[1].content.text
         ELSE systemPromptOf(Tail(msgs))

\* .filter(part => part.type === "text").map(part => part.text)
RECURSIVE textsOf(_)
textsOf(parts) ==
    IF parts = <<>> THEN <<>>
    ELSE (IF parts[1].type = "text" THEN <<parts[1].text>> ELSE <<>>)
         \o textsOf(Tail(parts))

\* `for (let i = prompt.length - 1; i >= 0; i--)`: the loop breaks at the last
\* user message whose content is a string or an array.
RECURSIVE userMessageFrom(_, _)
userMessageFrom(msgs, i) ==
    IF i = 0 THEN <<>>
    ELSE IF msgs[i].role = "user" /\ msgs[i].content.kind = "string"
         THEN msgs[i].content.text
         ELSE IF msgs[i].role = "user" /\ msgs[i].content.kind = "array"
              THEN join(textsOf(msgs[i].content.parts))
              ELSE userMessageFrom(msgs, i - 1)

\* prompt.map(...).filter(Boolean): the `role: content` line of every message
\* whose content is a string.
RECURSIVE roleLines(_)
roleLines(msgs) ==
    IF msgs = <<>> THEN <<>>
    ELSE (IF msgs[1].content.kind = "string"
          THEN <<<<msgs[1].role, ": ">> \o msgs[1].content.text>>
          ELSE <<>>)
         \o roleLines(Tail(msgs))

\* `if (!userMessage) { userMessage = prompt.map(...).filter(Boolean).join("\n") }`
fallback(msgs, userMessage) ==
    IF userMessage = <<>> THEN join(roleLines(msgs)) ELSE userMessage

\* `<system_instructions>\n${systemPrompt}\n</system_instructions>\n\n`
systemWrapper(systemPrompt) ==
    <<"<system_instructions>", "\n">> \o systemPrompt
        \o <<"\n", "</system_instructions>", "\n", "\n">>

extractUserMessage(p) ==
    IF p.kind = "string" THEN p.text
    ELSE IF p.kind # "array" THEN p.text
    ELSE LET systemPrompt == systemPromptOf(p.msgs)
             userMessage == fallback(p.msgs, userMessageFrom(p.msgs, Len(p.msgs)))
         IN  IF systemPrompt # <<>>
             THEN systemWrapper(systemPrompt) \o userMessage
             ELSE userMessage

\* The conversations handed to a call.
Roles == {"system", "user", "assistant"}
Contents ==
    { StringContent(<<>>), StringContent(<<"a">>), StringContent(<<"b">>),
      ArrayContent(<<TextPart(<<"a">>)>>),
      ArrayContent(<<TextPart(<<"a">>), TextPart(<<"b">>)>>),
      ArrayContent(<<ImagePart>>),
      ArrayContent(<<TextPart(<<"b">>), ImagePart>>),
      OtherContent }
Messages == { Message(role, content) : role \in Roles, content \in Contents }
Conversations == UNION { [1..n -> Messages] : n \in 0..MaxMessages }
Prompts ==
    { ArrayPrompt(msgs) : msgs \in Conversations }
        \cup { StringPrompt(<<"a">>), StringPrompt(<<>>), OtherPrompt }

(***************************************************************************)
(* The model listing: parseOpenCodeModels.  The output of `opencode models`*)
(* is a sequence of the atoms NL, SP, Space, Ch("/"), Ch("-"), Ch(".") and *)
(* Name(s), the ASCII letters s.                                           *)
(***************************************************************************)
Name(s) == [k |-> "name", s |-> s]
NoModels == [returned |-> FALSE, list |-> <<>>]

\* String.prototype.split(separator) for a one-character separator.
RECURSIVE splitOn(_, _, _)
splitOn(s, separator, piece) ==
    IF s = <<>> THEN <<piece>>
    ELSE IF Head(s) = separator
         THEN <<piece>> \o splitOn(Tail(s), separator, <<>>)
         ELSE splitOn(Tail(s), separator, Append(piece, Head(s)))

\* Array.prototype.join(separator) over strings.
RECURSIVE joinWith(_, _)
joinWith(strings, separator) ==
    IF strings = <<>> THEN <<>>
    ELSE IF Len(strings) = 1 THEN strings[1]
    ELSE strings[1] \o <<separator>> \o joinWith(Tail(strings), separator)

\* .replace(/-/g, " ").replace(/\./g, " ")
dashesToSpaces(s) ==
    [i \in 1..Len(s) |-> IF s[i] \in {Ch("-"), Ch(".")} THEN Space ELSE s[i]]

\* word.charAt(0).toUpperCase() + word.slice(1)
toUpperCase(atom) ==
    IF atom = Name("a") THEN Name("A")
    ELSE IF atom = Name("opencode") THEN Name("Opencode")
    ELSE atom

capitalize(word) ==
    IF word = <<>> THEN <<>> ELSE <<toUpperCase(Head(word))>> \o Tail(word)

displayNameOf(model) ==
    LET words == splitOn(dashesToSpaces(model), Space, <<>>)
    IN  joinWith([i \in 1..Len(words) |-> capitalize(words[i])], Space)

\* The loop body without the test for opencode's built-in models.
modelOfAnyLine(line) ==
    LET trimmed == trim(line)
        parts == splitOn(trimmed, Ch("/"), <<>>)
    IN  IF trimmed # <<>> /\ Len(parts) >= 2
        THEN <<[provider |-> parts[1], model |-> trimmed, displayName |-> <<>>]>>
        ELSE <<>>

\* The body of `for (const line of lines)`: the entry the line yields, if any.
modelOfLine(line) ==
    LET trimmed == trim(line)
        parts == splitOn(trimmed, Ch("/"), <<>>)
        provider == parts[1]
        model == joinWith(Tail(parts), Ch("/"))
    IN  IF trimmed = <<>> \/ startsWith(trimmed, <<Name("opencode"), Ch("/")>>)
        THEN <<>>
        ELSE IF Len(parts) >= 2
             THEN <<[provider |-> provider,
                     model |-> trimmed,
                     displayName |-> displayNameOf(model) \o <<Space, Ch("(")>>
                                         \o provider \o <<Ch(")")>>]>>
             ELSE <<>>

RECURSIVE modelsOfLines(_)
modelsOfLines(lines) ==
    IF lines = <<>> THEN <<>>
    ELSE modelOfLine(Head(lines)) \o modelsOfLines(Tail(lines))

parseOpenCodeModels(out) ==
    modelsOfLines(SelectSeq(split(out), LAMBDA line : trim(line) # <<>>))

\* The outputs handed to parseOpenCodeModels.
ListingAtoms == {NL, SP, Space, Ch("/"), Ch("-"), Name("a"), Name("opencode")}
ListingOutputs == UNION { [1..n -> ListingAtoms] : n \in 0..MaxOutput }

(***************************************************************************)
(* streamGeminiCliResponse: the renderer-side streaming of the Gemini CLI. *)
(* The call is made without an abort signal.  The record holds            *)
(*   proc, stdout, written   the child process, as for the adapters        *)
(*   buffer, fullResponse    the closure variables                         *)
(*   onChunk, onComplete, onError   the arguments of the invocations of    *)
(*                           each callback, in order                       *)
(***************************************************************************)
NoCli ==
    [proc |-> "none", stdout |-> <<>>, written |-> <<>>, buffer |-> <<>>,
     fullResponse |-> <<>>, onChunk |-> <<>>, onComplete |-> <<>>, onError |-> <<>>]

\* The body of the try block of the stdout callback, after JSON.parse.
cliEvent(c, event) ==
    IF event.type = "message" /\ event.role = "assistant"
    THEN [c EXCEPT !.fullResponse = IF event.delta THEN event.content
                                    ELSE @ \o event.content,
                   !.onChunk = Append(@, event.content)]
    ELSE IF event.type = "result"
    THEN IF event.status = "error"
         THEN [c EXCEPT !.onError = Append(@, "result")]
         ELSE [c EXCEPT !.onComplete = Append(@, c.fullResponse)]
    ELSE c

\* One iteration of `for (const line of lines)`.
cliLine(c, line) ==
    LET trimmedLine == trim(line)
    IN  IF trimmedLine = <<>> \/ Head(trimmedLine).k = "banner" THEN c
        ELSE IF ~JsonValid(trimmedLine) THEN c
        ELSE cliEvent(c, JsonParse(trimmedLine))

RECURSIVE cliLines(_, _)
cliLines(c, lines) ==
    IF lines = <<>> THEN c ELSE cliLines(cliLine(c, Head(lines)), Tail(lines))

\* geminiProcess.stdout.on("data", ...)
cliStdoutData(c, data) ==
    LET lines == split(appendChunk(c.buffer, data))
    IN  cliLines([c EXCEPT !.buffer = lines[Len(lines)]],
                 SubSeq(lines, 1, Len(lines) - 1))

\* geminiProcess.on("error", ...)
cliError(c) == [c EXCEPT !.onError = Append(@, "spawn")]

\* geminiProcess.on("close", ...)
cliClose(c, code) ==
    LET c1 == IF code \notin {"0", "null"} /\ c.fullResponse = <<>>
              THEN [c EXCEPT !.onError = Append(@, "exit")]
              ELSE c
        rest == trim(c1.buffer)
    IN  IF rest # <<>> /\ JsonValid(rest)
           /\ JsonParse(rest).type = "result" /\ JsonParse(rest).status = "success"
        THEN [c1 EXCEPT !.onComplete = Append(@, c1.fullResponse)]
        ELSE c1

\* The lines the Gemini CLI writes to the renderer-side call.
CliLines ==
    { Line(gmMessageRec("assistant", TRUE), <<a>>),
      Line(gmMessageRec("assistant", FALSE), <<b>>),
      Line(gmMessageRec("user", FALSE), <<a>>),
      Line(gmResultRec("success", TRUE, 1, 2), <<>>),
      Line(gmResultRec("error", TRUE, 1, 1), <<>>),
      <<Banner, NL>>,
      JunkLine }

(***************************************************************************)
(* The state machine                                                       *)
(***************************************************************************)
TheWorld == World(adapter, call, currentSessionKey, sessionMap, initializedSessions)

\* A callback has run: its effects on the closure and on the module state.
Commit(w) ==
    /\ call' = w.call
    /\ sessionMap' = w.sessionMap
    /\ initializedSessions' = w.initializedSessions

\* The closure state of one doGenerate call and its promise: `settled` is
\* "pending", "resolved" or "rejected"; `error` names the rejection ("Aborted",
\* "spawn" for the error the process emitted, "exit" for the exit-code error,
\* "nojson" for Gemini's missing response); text, promptTokens and
\* completionTokens are the resolved value.
NoGen ==
    [output |-> <<>>, totalInputTokens |-> 0, totalOutputTokens |-> 0,
     settled |-> "pending", error |-> "", text |-> <<>>,
     promptTokens |-> 0, completionTokens |-> 0]

\* The second call before it is issued.  Besides what is kept of the first
\* call, `chunks` holds the lengths of the chunks its stdout arrived in.
NoPeer ==
    [proc |-> "none", stdout |-> <<>>, written |-> <<>>, exitCode |-> "",
     chunks |-> <<>>, call |-> NoCall]

Init ==
    /\ adapter \in Adapters
    /\ currentSessionKey = ""
    /\ sessionMap = [k \in SessionKeys |-> ""]
    /\ initializedSessions = {}
    /\ shouldResumeSession = FALSE
    /\ proc = "none"
    /\ stdout = <<>>
    /\ written = <<>>
    /\ exitCode = ""
    /\ call = NoCall
    /\ mode = ""
    /\ args = <<>>
    /\ ncalls = 0
    /\ gen = NoGen
    /\ aborted = FALSE
    /\ kills = 0
    /\ stderrSeen = 0
    /\ peer = NoPeer
    /\ abortedAtIssue = FALSE
    /\ prompt = NoPrompt
    /\ message = NoMessage
    /\ output = <<>>
    /\ models = NoModels
    /\ geminiCli = NoCli

\* No call is in flight.
Idle == proc \in {"none", "closed"} /\ peer.proc \in {"none", "closed"}

\* setOpenCodeSessionKey / setGeminiCliSessionKey / setLettaSessionKey; the
\* Gemini module also decides here whether the next calls resume.
SetSessionKey(key) ==
    /\ Idle
    /\ currentSessionKey' = key
    /\ shouldResumeSession' =
          IF adapter = "gemini" THEN key # "" /\ key \in initializedSessions
          ELSE shouldResumeSession
    /\ UNCHANGED <<geminiCli, listVars, promptVars, abortedAtIssue, adapter, sessionMap, initializedSessions, proc, stdout,
                   written, exitCode, call, mode, args, ncalls, gen, envVars>>

\* The resume flag the call puts in the argument vector.
resumeArgs ==
    IF adapter = "gemini"
    THEN IF shouldResumeSession THEN <<"--resume", "latest">> ELSE <<>>
    ELSE IF currentSessionKey # "" /\ sessionMap[currentSessionKey] # ""
         THEN <<IF adapter = "opencode" THEN "-s" ELSE "-a",
                sessionMap[currentSessionKey]>>
         ELSE <<>>

\* doStream: the process is spawned with the argument vector, the abort
\* listener is registered, the stream is constructed and start() runs; the
\* process is going to write one of `outs`.  The listener of a signal that
\* is aborted already (`atIssue`) is never called: addEventListener does not
\* replay the abort event.
StreamCall(outs, atIssue) ==
    /\ ncalls < MaxCalls
    /\ abortedAtIssue' = atIssue
    /\ \E out \in outs :
          /\ stdout' = out
          /\ written' = out
    /\ proc' = "running"
    /\ exitCode' = ""
    /\ mode' = "stream"
    /\ args' = resumeArgs
    /\ ncalls' = ncalls + 1
    /\ gen' = NoGen
    /\ aborted' = FALSE
    /\ kills' = 0
    /\ stderrSeen' = 0
    /\ Commit(startStream(World(adapter, NoCall, currentSessionKey, sessionMap,
                                initializedSessions)))
    /\ UNCHANGED <<geminiCli, listVars, promptVars, adapter, currentSessionKey, shouldResumeSession, peer>>

\* Everything a process of the adapter may write in the model.
StreamOutputs(adp) ==
    UNION { {full, Unterminated(full)} :
              full \in UNION { Outputs(p) : p \in Profiles(adp) } }

\* The first call of the behaviour.
DoStream ==
    /\ proc = "none"
    /\ StreamCall(StreamOutputs(adapter), FALSE)

\* The `data` callback of stdout with the next n bytes of the pipe.
StdoutData(n) ==
    /\ proc = "running"
    /\ mode = "stream"
    /\ n \in 1..Len(stdout)
    /\ stdout' = SubSeq(stdout, n + 1, Len(stdout))
    /\ Commit(onStdoutData(TheWorld, SubSeq(stdout, 1, n)))
    /\ UNCHANGED <<geminiCli, listVars, promptVars, abortedAtIssue, adapter, currentSessionKey, shouldResumeSession, proc, written,
                   exitCode, mode, args, ncalls, gen, envVars>>

\* The `error` callback of the process: the executable could not be spawned
\* (such a process writes nothing).  The abort signal may have fired before
\* the failure is reported.
ProcessError ==
    /\ proc = "running"
    /\ mode = "stream"
    /\ written = <<>>
    /\ proc' = "failed"
    /\ Commit(onError(TheWorld))
    /\ UNCHANGED <<geminiCli, listVars, promptVars, abortedAtIssue, adapter, currentSessionKey, shouldResumeSession, stdout, written,
                   exitCode, mode, args, ncalls, gen, envVars>>

\* The `close` callback of the process, after the pipe has been drained.  A
\* process that could not be spawned closes with a non-zero code.
Close(code) ==
    /\ proc \in {"running", "failed"}
    /\ mode = "stream"
    /\ stdout = <<>>
    /\ proc = "failed" => code = "1"
    /\ proc' = "closed"
    /\ exitCode' = code
    /\ Commit(onClose(TheWorld, code))
    /\ UNCHANGED <<geminiCli, listVars, promptVars, abortedAtIssue, adapter, currentSessionKey, shouldResumeSession, stdout, written,
                   mode, args, ncalls, gen, envVars>>

ExitCodes == {"0", "1", "null"}

\* The consumer of the stream reads (reader.read() until it has to wait, or
\* until it stops reading for now): queued parts are taken, and `waiting`
\* tells whether it leaves a read request pending.
ConsumerRead(waiting) ==
    /\ proc # "none"
    /\ mode = "stream"
    /\ call.ctrl \in {"readable", "closing"}
    /\ call.queue = "nonempty" \/ (call.queue = "empty" /\ waiting)
    /\ call' = [call EXCEPT
                   !.queue = IF call.ctrl = "closing" \/ ~waiting THEN "empty"
                             ELSE "waiting",
                   !.ctrl = IF @ = "closing" THEN "closed" ELSE @]
    /\ UNCHANGED <<geminiCli, listVars, promptVars, abortedAtIssue, adapter, currentSessionKey, sessionMap, initializedSessions,
                   shouldResumeSession, proc, stdout, written, exitCode,
                   mode, args, ncalls, gen, envVars>>

Next ==
    \/ \E key \in SessionKeys \cup {""} : SetSessionKey(key)
    \/ DoStream
    \/ \E n \in 1..Len(stdout) : StdoutData(n)
    \/ ProcessError
    \/ \E code \in ExitCodes : Close(code)
    \/ \E waiting \in BOOLEAN : ConsumerRead(waiting)

Spec == Init /\ [][Next]_vars

(***************************************************************************)
(* Calls of both modes one after the other, with the abort signal,         *)
(* standard error and clearSession.  The processes write short outputs.    *)
(***************************************************************************)
\* clearOpenCodeSession / clearGeminiCliSession / clearLettaSession
ClearSession(key) ==
    /\ Idle
    /\ ncalls > 0
    /\ sessionMap' = IF adapter = "gemini" THEN sessionMap
                     ELSE [sessionMap EXCEPT ![key] = ""]
    /\ initializedSessions' = IF adapter = "gemini" THEN initializedSessions \ {key}
                              ELSE initializedSessions
    /\ UNCHANGED <<geminiCli, listVars, promptVars, abortedAtIssue, adapter, currentSessionKey, shouldResumeSession, proc, stdout,
                   written, exitCode, call, mode, args, ncalls, gen, envVars>>

\* doStream, as the first call or after the previous call has completed.
DoStreamShort ==
    /\ proc \in {"none", "closed"}
    /\ StreamCall(ShortOutputs(ShortLines(adapter)), FALSE)

\* doGenerate, as the first call or after the previous call has completed: the
\* process is spawned with the argument vector and the listeners are
\* registered on it.
GenerateCall(atIssue) ==
    /\ abortedAtIssue' = atIssue
    /\ proc \in {"none", "closed"}
    /\ ncalls < MaxCalls
    /\ \E out \in ShortOutputs(GenLines(adapter)) :
          /\ stdout' = out
          /\ written' = out
    /\ proc' = "running"
    /\ exitCode' = ""
    /\ mode' = "generate"
    /\ args' = resumeArgs
    /\ ncalls' = ncalls + 1
    /\ gen' = NoGen
    /\ call' = NoCall
    /\ aborted' = FALSE
    /\ kills' = 0
    /\ stderrSeen' = 0
    /\ UNCHANGED <<geminiCli, listVars, promptVars, adapter, currentSessionKey, sessionMap, initializedSessions,
                   shouldResumeSession, peer>>

DoGenerate == GenerateCall(FALSE)

\* The same calls issued with a signal that is aborted already.
DoStreamAborted ==
    /\ proc \in {"none", "closed"}
    /\ StreamCall(ShortOutputs(ShortLines(adapter)), TRUE)

DoGenerateAborted == GenerateCall(TRUE)

GenWorld == World(adapter, gen, currentSessionKey, sessionMap, initializedSessions)

\* A callback of doGenerate has run.
GenCommit(w) ==
    /\ gen' = w.call
    /\ sessionMap' = w.sessionMap
    /\ initializedSessions' = w.initializedSessions

\* The `data` callback of stdout in generate mode.
GenStdoutData(n) ==
    /\ proc = "running"
    /\ mode = "generate"
    /\ n \in 1..Len(stdout)
    /\ stdout' = SubSeq(stdout, n + 1, Len(stdout))
    /\ GenCommit(onGenData(GenWorld, SubSeq(stdout, 1, n)))
    /\ UNCHANGED <<geminiCli, listVars, promptVars, abortedAtIssue, adapter, currentSessionKey, shouldResumeSession, proc, written,
                   exitCode, call, mode, args, ncalls, envVars>>

\* The `error` callback of the process in generate mode.
GenError ==
    /\ proc = "running"
    /\ mode = "generate"
    /\ written = <<>>
    /\ proc' = "failed"
    /\ GenCommit(onGenError(GenWorld))
    /\ UNCHANGED <<geminiCli, listVars, promptVars, abortedAtIssue, adapter, currentSessionKey, shouldResumeSession, stdout, written,
                   exitCode, call, mode, args, ncalls, envVars>>

\* The `close` callback of the process in generate mode.
GenClose(code) ==
    /\ proc \in {"running", "failed"}
    /\ mode = "generate"
    /\ stdout = <<>>
    /\ proc = "failed" => code = "1"
    /\ proc' = "closed"
    /\ exitCode' = code
    /\ GenCommit(onGenClose(GenWorld, code))
    /\ UNCHANGED <<geminiCli, listVars, promptVars, abortedAtIssue, adapter, currentSessionKey, shouldResumeSession, stdout, written,
                   call, mode, args, ncalls, envVars>>

\* A listener that sends the signal twice.
killTwice(n) == n + 2

\* `process.kill("SIGTERM")`
kill(n) == n + 1

\* The abort signal of the call fires (a signal fires once): the listener,
\* which is never removed and so also runs after the close event, kills the
\* child and, in generate mode, rejects.  A running child either has written
\* everything already (`rest`) or dies before writing the rest; what is in
\* the pipe is still delivered.
Abort(rest) ==
    /\ proc \in {"running", "failed", "closed"}
    /\ ~aborted
    /\ ~abortedAtIssue
    /\ aborted' = TRUE
    /\ kills' = kill(kills)
    /\ written' = IF rest THEN written
                  ELSE SubSeq(written, 1, Len(written) - Len(stdout))
    /\ stdout' = IF rest THEN stdout ELSE <<>>
    /\ gen' = IF mode = "generate" THEN onGenAbort(GenWorld).call ELSE gen
    /\ UNCHANGED <<geminiCli, listVars, promptVars, abortedAtIssue, adapter, currentSessionKey, sessionMap, initializedSessions,
                   shouldResumeSession, proc, exitCode, call, mode, args, ncalls,
                   stderrSeen, peer>>

\* The `data` callback of stderr (doGenerate registers none).
StderrData(kind) ==
    /\ proc = "running"
    /\ stderrSeen < MaxStderr
    /\ stderrSeen' = stderrSeen + 1
    /\ IF mode = "stream" THEN Commit(onStderrData(TheWorld, kind))
       ELSE UNCHANGED <<call, sessionMap, initializedSessions>>
    /\ UNCHANGED <<geminiCli, listVars, promptVars, abortedAtIssue, adapter, currentSessionKey, shouldResumeSession, proc, stdout,
                   written, exitCode, mode, args, ncalls, gen, aborted, kills, peer>>

StderrKinds == {"auth", "other"}

NextCalls ==
    \/ \E key \in SessionKeys \cup {""} : SetSessionKey(key)
    \/ \E key \in SessionKeys : ClearSession(key)
    \/ DoStreamShort
    \/ DoGenerate
    \/ DoStreamAborted
    \/ DoGenerateAborted
    \/ \E n \in 1..Len(stdout) : StdoutData(n)
    \/ \E n \in 1..Len(stdout) : GenStdoutData(n)
    \/ ProcessError
    \/ GenError
    \/ \E code \in ExitCodes : Close(code)
    \/ \E code \in ExitCodes : GenClose(code)
    \/ \E rest \in BOOLEAN : Abort(rest)
    \/ \E kind \in StderrKinds : StderrData(kind)
    \/ \E waiting \in BOOLEAN : ConsumerRead(waiting)

SpecCalls == Init /\ [][NextCalls]_vars

(***************************************************************************)
(* Two stream calls of the adapter open at the same time: the second call  *)
(* is issued while the first one runs, its callbacks interleave with those *)
(* of the first, and both work on the same module-level state.  The second *)
(* call's process writes at most one line.                                 *)
(***************************************************************************)
PeerOutputs(adp) ==
    {<<>>} \cup ShortLines(adp) \cup { Unterminated(l) : l \in ShortLines(adp) }

PeerWorld ==
    World(adapter, peer.call, currentSessionKey, sessionMap, initializedSessions)

\* A callback of the second call has run.
PeerCommit(w, p) ==
    /\ peer' = [p EXCEPT !.call = w.call]
    /\ sessionMap' = w.sessionMap
    /\ initializedSessions' = w.initializedSessions

\* doStream, while the first call is running.
PeerDoStream ==
    /\ proc = "running"
    /\ mode = "stream"
    /\ peer.proc = "none"
    /\ \E out \in PeerOutputs(adapter) :
          PeerCommit(startStream(World(adapter, NoCall, currentSessionKey,
                                       sessionMap, initializedSessions)),
                     [NoPeer EXCEPT !.proc = "running", !.stdout = out,
                                    !.written = out])
    /\ UNCHANGED <<geminiCli, listVars, promptVars, abortedAtIssue, adapter, currentSessionKey, shouldResumeSession, proc, stdout,
                   written, exitCode, call, mode, args, ncalls, gen, aborted,
                   kills, stderrSeen>>

\* The `data` callback of the second call's stdout.
PeerStdoutData(n) ==
    /\ peer.proc = "running"
    /\ n \in 1..Len(peer.stdout)
    /\ PeerCommit(onStdoutData(PeerWorld, SubSeq(peer.stdout, 1, n)),
                  [peer EXCEPT !.stdout = SubSeq(@, n + 1, Len(@)),
                               !.chunks = Append(@, n)])
    /\ UNCHANGED <<geminiCli, listVars, promptVars, abortedAtIssue, adapter, currentSessionKey, shouldResumeSession, proc, stdout,
                   written, exitCode, call, mode, args, ncalls, gen, aborted,
                   kills, stderrSeen>>

\* The `close` callback of the second call's process.
PeerClose(code) ==
    /\ peer.proc = "running"
    /\ peer.stdout = <<>>
    /\ PeerCommit(onClose(PeerWorld, code),
                  [peer EXCEPT !.proc = "closed", !.exitCode = code])
    /\ UNCHANGED <<geminiCli, listVars, promptVars, abortedAtIssue, adapter, currentSessionKey, shouldResumeSession, proc, stdout,
                   written, exitCode, call, mode, args, ncalls, gen, aborted,
                   kills, stderrSeen>>

NextTwo ==
    \/ \E key \in SessionKeys \cup {""} : SetSessionKey(key)
    \/ DoStreamShort
    \/ \E n \in 1..Len(stdout) : StdoutData(n)
    \/ \E code \in ExitCodes : Close(code)
    \/ PeerDoStream
    \/ \E n \in 1..Len(peer.stdout) : PeerStdoutData(n)
    \/ \E code \in ExitCodes : PeerClose(code)

SpecTwo == Init /\ [][NextTwo]_vars

(***************************************************************************)
(* A caller that serializes its calls by their streams: it issues a call   *)
(* under key "K", waits until the stream of that call has delivered its    *)
(* end (closed or errored), then sets key "L" and issues the next call.    *)
(* The process of the first call may still be running and writing then.    *)
(***************************************************************************)
LateKeys == {"K", "L"}

InitLate ==
    /\ adapter \in {"opencode", "letta"}
    /\ currentSessionKey = ""
    /\ sessionMap = [k \in LateKeys |-> ""]
    /\ initializedSessions = {}
    /\ shouldResumeSession = FALSE
    /\ proc = "none"
    /\ stdout = <<>>
    /\ written = <<>>
    /\ exitCode = ""
    /\ call = NoCall
    /\ mode = ""
    /\ args = <<>>
    /\ ncalls = 0
    /\ gen = NoGen
    /\ aborted = FALSE
    /\ kills = 0
    /\ stderrSeen = 0
    /\ peer = NoPeer
    /\ abortedAtIssue = FALSE
    /\ prompt = NoPrompt
    /\ message = NoMessage
    /\ output = <<>>
    /\ models = NoModels
    /\ geminiCli = NoCli

\* The stream of the first call has delivered its end to the consumer.
StreamEnded == proc # "none" /\ call.ctrl \in {"closed", "errored"}

\* setOpenCodeSessionKey / setLettaSessionKey, immediately before a call.
SetSessionKeyForCall(key) ==
    /\ \/ proc = "none" /\ currentSessionKey = "" /\ key = "K"
       \/ StreamEnded /\ peer.proc = "none" /\ currentSessionKey = "K" /\ key = "L"
    /\ currentSessionKey' = key
    /\ UNCHANGED <<geminiCli, listVars, promptVars, abortedAtIssue, adapter, sessionMap, initializedSessions,
                   shouldResumeSession, proc, stdout, written, exitCode, call,
                   mode, args, ncalls, gen, envVars>>

\* The first call, under "K".
FirstDoStream ==
    /\ proc = "none"
    /\ currentSessionKey = "K"
    /\ StreamCall(ShortOutputs(ShortLines(adapter)), FALSE)

\* The next call, under "L", once the stream of the first one has ended.
NextDoStream ==
    /\ StreamEnded
    /\ currentSessionKey = "L"
    /\ PeerDoStream

\* clearOpenCodeSession / clearLettaSession, called while the process of the
\* first call is still writing.
ClearSessionInFlight(key) ==
    /\ proc = "running"
    /\ peer.proc = "none"
    /\ sessionMap' = [sessionMap EXCEPT ![key] = ""]
    /\ UNCHANGED <<geminiCli, listVars, promptVars, abortedAtIssue, adapter, currentSessionKey, initializedSessions,
                   shouldResumeSession, proc, stdout, written, exitCode, call,
                   mode, args, ncalls, gen, envVars>>

NextLate ==
    \/ \E key \in LateKeys : SetSessionKeyForCall(key)
    \/ \E key \in LateKeys : ClearSessionInFlight(key)
    \/ FirstDoStream
    \/ \E n \in 1..Len(stdout) : StdoutData(n)
    \/ \E code \in ExitCodes : Close(code)
    \/ \E waiting \in BOOLEAN : ConsumerRead(waiting)
    \/ NextDoStream
    \/ \E n \in 1..Len(peer.stdout) : PeerStdoutData(n)
    \/ \E code \in ExitCodes : PeerClose(code)

SpecLate == InitLate /\ [][NextLate]_vars

(***************************************************************************)
(* Prompt flattening on its own: a call is handed a prompt and flattens    *)
(* it before it spawns the process.                                        *)
(***************************************************************************)
InitPrompt ==
    /\ adapter \in Adapters
    /\ currentSessionKey = ""
    /\ sessionMap = [k \in SessionKeys |-> ""]
    /\ initializedSessions = {}
    /\ shouldResumeSession = FALSE
    /\ proc = "none"
    /\ stdout = <<>>
    /\ written = <<>>
    /\ exitCode = ""
    /\ call = NoCall
    /\ mode = ""
    /\ args = <<>>
    /\ ncalls = 0
    /\ gen = NoGen
    /\ aborted = FALSE
    /\ kills = 0
    /\ stderrSeen = 0
    /\ peer = NoPeer
    /\ abortedAtIssue = FALSE
    /\ prompt \in Prompts
    /\ message = NoMessage
    /\ output = <<>>
    /\ models = NoModels
    /\ geminiCli = NoCli

\* const userMessage = extractUserMessage(prompt)
ExtractUserMessage ==
    /\ ~message.returned
    /\ message' = [returned |-> TRUE, text |-> extractUserMessage(prompt)]
    /\ UNCHANGED <<adapter, currentSessionKey, sessionMap, initializedSessions,
                   shouldResumeSession, proc, stdout, written, exitCode, call,
                   mode, args, ncalls, gen, envVars, abortedAtIssue, prompt, listVars, geminiCli>>

NextPrompt == ExtractUserMessage

SpecPrompt == InitPrompt /\ [][NextPrompt]_vars

(***************************************************************************)
(* The model listing on its own: the output of `opencode models` is parsed *)
(* into the list of models.                                                *)
(***************************************************************************)
InitModels ==
    /\ adapter = "opencode"
    /\ currentSessionKey = ""
    /\ sessionMap = [k \in SessionKeys |-> ""]
    /\ initializedSessions = {}
    /\ shouldResumeSession = FALSE
    /\ proc = "none"
    /\ stdout = <<>>
    /\ written = <<>>
    /\ exitCode = ""
    /\ call = NoCall
    /\ mode = ""
    /\ args = <<>>
    /\ ncalls = 0
    /\ gen = NoGen
    /\ aborted = FALSE
    /\ kills = 0
    /\ stderrSeen = 0
    /\ peer = NoPeer
    /\ abortedAtIssue = FALSE
    /\ prompt = NoPrompt
    /\ message = NoMessage
    /\ output \in ListingOutputs
    /\ models = NoModels
    /\ geminiCli = NoCli

\* const parsedModels = parseOpenCodeModels(output)
ParseOpenCodeModels ==
    /\ ~models.returned
    /\ models' = [returned |-> TRUE, list |-> parseOpenCodeModels(output)]
    /\ UNCHANGED <<adapter, currentSessionKey, sessionMap, initializedSessions,
                   shouldResumeSession, proc, stdout, written, exitCode, call,
                   mode, args, ncalls, gen, envVars, abortedAtIssue, promptVars, output, geminiCli>>

NextModels == ParseOpenCodeModels

SpecModels == InitModels /\ [][NextModels]_vars

(***************************************************************************)
(* streamGeminiCliResponse on its own: one call, its process and its       *)
(* callbacks.                                                              *)
(***************************************************************************)
CliUnchanged ==
    UNCHANGED <<adapter, currentSessionKey, sessionMap, initializedSessions,
                shouldResumeSession, proc, stdout, written, exitCode, call,
                mode, args, ncalls, gen, envVars, abortedAtIssue, promptVars,
                listVars>>

InitCli == Init /\ adapter = "gemini"

\* streamGeminiCliResponse(options): the process is spawned.
StreamGeminiCliResponse ==
    /\ geminiCli.proc = "none"
    /\ \E out \in ShortOutputs(CliLines) :
          geminiCli' = [geminiCli EXCEPT !.proc = "running", !.stdout = out,
                                         !.written = out]
    /\ CliUnchanged

CliStdoutData(n) ==
    /\ geminiCli.proc = "running"
    /\ n \in 1..Len(geminiCli.stdout)
    /\ geminiCli' = [cliStdoutData(geminiCli, SubSeq(geminiCli.stdout, 1, n))
                        EXCEPT !.stdout = SubSeq(geminiCli.stdout, n + 1,
                                                 Len(geminiCli.stdout))]
    /\ CliUnchanged

\* The `error` callback: the executable could not be spawned (such a process
\* writes nothing).
CliError ==
    /\ geminiCli.proc = "running"
    /\ geminiCli.written = <<>>
    /\ geminiCli' = [cliError(geminiCli) EXCEPT !.proc = "failed"]
    /\ CliUnchanged

\* The `close` callback, after the pipe has been drained.  A process that
\* could not be spawned closes with a non-zero code.
CliClose(code) ==
    /\ geminiCli.proc \in {"running", "failed"}
    /\ geminiCli.stdout = <<>>
    /\ geminiCli.proc = "failed" => code = "1"
    /\ geminiCli' = [cliClose(geminiCli, code) EXCEPT !.proc = "closed"]
    /\ CliUnchanged

NextCli ==
    \/ StreamGeminiCliResponse
    \/ \E n \in 1..Len(geminiCli.stdout) : CliStdoutData(n)
    \/ CliError
    \/ \E code \in ExitCodes : CliClose(code)

SpecCli == InitCli /\ [][NextCli]_vars

(***************************************************************************)
(* Vocabulary of the properties                                            *)
(***************************************************************************)
Events == call.events
Seen == call.seen

IsTerminalPart(e) == e.type \in {"finish", "error"}

\* The records each adapter recognizes as terminal, and those among them that
\* indicate an error status.
IsTerminalRecord(r) ==
    IF adapter = "opencode"
    THEN r.type = "error" \/ (r.type = "step_finish" /\ r.reason = "stop")
    ELSE r.type = "result"

IsErrorRecord(r) ==
    IF adapter = "opencode" THEN r.type = "error"
    ELSE IF adapter = "gemini" THEN r.type = "result" /\ r.status = "error"
    ELSE r.type = "result" /\ r.is_error

NoTerminalRecord ==
    /\ \A i \in DOMAIN Seen : ~IsTerminalRecord(Seen[i])
    /\ \A i \in DOMAIN call.residual : ~IsTerminalRecord(call.residual[i])

PartsOfType(t) == {i \in DOMAIN Events : Events[i].type = t}

\* The concatenation of the text-delta payloads of a sequence of parts.
RECURSIVE ConcatDeltas(_)
ConcatDeltas(parts) ==
    IF parts = <<>> THEN <<>>
    ELSE (IF Head(parts).type = "text-delta" THEN Head(parts).delta ELSE <<>>)
         \o ConcatDeltas(Tail(parts))

(***************************************************************************)
(* C1: every finished stream call has emitted exactly one terminal outcome *)
(* (a finish part or the stream error), and nothing is emitted after it.   *)
(***************************************************************************)
C1_OneTerminalOutcome ==
    LET terminal == {i \in DOMAIN Events : IsTerminalPart(Events[i])}
    IN  /\ Cardinality(terminal) <= 1
        /\ \A i \in terminal : i = Len(Events)
        /\ proc = "closed" => Cardinality(terminal) = 1

(***************************************************************************)
(* C2: once text-end has been emitted, no text-start and no text-delta is  *)
(* emitted afterwards in the call, whatever the stdout lines are.          *)
(***************************************************************************)
C2_TextBlockNeverReopened ==
    \A i \in PartsOfType("text-end") : \A j \in DOMAIN Events :
        j > i => Events[j].type \notin {"text-start", "text-delta"}

(***************************************************************************)
(* C3: exactly one text-start precedes the first text-delta (none later),  *)
(* and a text-end is the last text part, immediately before the terminal   *)
(* finish or error.                                                        *)
(***************************************************************************)
C3_TextBlockShape ==
    /\ Cardinality(PartsOfType("text-start")) <= 1
    /\ \A i \in PartsOfType("text-delta") :
          \E j \in PartsOfType("text-start") : j < i
    /\ \A i \in PartsOfType("text-end") :
          /\ i < Len(Events)
          /\ IsTerminalPart(Events[i + 1])
          /\ \A j \in DOMAIN Events :
                j > i => Events[j].type \notin {"text-start", "text-delta"}

(***************************************************************************)
(* C4: when all records are newline-terminated, however the output is cut  *)
(* in chunks, the records handed to the normalizer and the parts emitted   *)
(* are those of the whole output arriving as one chunk.                    *)
(***************************************************************************)
NewlineTerminated(out) == out = <<>> \/ out[Len(out)] = NL

\* The call that is given the whole output as one chunk.
OneChunkCall ==
    LET w0 == startStream(World(adapter, NoCall, currentSessionKey,
                                [k \in SessionKeys |-> ""], {}))
    IN  IF written = <<>> THEN w0.call ELSE onStdoutData(w0, written).call

C4_ChunkingIrrelevant ==
    (proc = "running" /\ stdout = <<>> /\ NewlineTerminated(written)) =>
        /\ Seen = OneChunkCall.seen
        /\ Events = OneChunkCall.events

(***************************************************************************)
(* C5: in an OpenCode call whose records are text records with cumulative  *)
(* strings s1..sn, each extending the previous one, the text-delta         *)
(* payloads emitted concatenate to sn exactly.                             *)
(***************************************************************************)
Cumulative(recs) ==
    \A i \in DOMAIN recs :
        /\ recs[i].type = "text"
        /\ i > 1 => startsWith(recs[i].text, recs[i - 1].text)

C5_DeltasConcatenateToLast ==
    (adapter = "opencode" /\ Cumulative(Seen)) =>
        ConcatDeltas(Events) = (IF Seen = <<>> THEN <<>> ELSE Seen[Len(Seen)].text)

\* Three growing texts have been normalized: "", "a", "ab" or the like.
C5_Witness ==
    /\ adapter = "opencode"
    /\ Cumulative(Seen)
    /\ Len(Seen) >= 2
    /\ Len(Seen[Len(Seen)].text) = 2
    /\ Len(Seen[Len(Seen) - 1].text) = 1
    /\ Cardinality(PartsOfType("text-delta")) = 2

(***************************************************************************)
(* C6: while non-terminal usage records are processed (OpenCode            *)
(* step_finish, Letta usage_statistics), the accumulated input and output  *)
(* token counters never decrease and are never negative.                   *)
(***************************************************************************)
NewlySeen == SubSeq(call'.seen, Len(call.seen) + 1, Len(call'.seen))

C6_UsageNeverDecreases ==
    [][(/\ adapter \in {"opencode", "letta"}
        /\ proc' = "running"
        /\ \A i \in DOMAIN NewlySeen : NewlySeen[i].type # "result")
       => /\ call'.totalInputTokens >= call.totalInputTokens
          /\ call'.totalOutputTokens >= call.totalOutputTokens
          /\ call'.totalInputTokens >= 0
          /\ call'.totalOutputTokens >= 0]_vars

(***************************************************************************)
(* C7: for any sequence of tool records, the start announcement of a tool  *)
(* call id is emitted at most once and its completion (or failure)         *)
(* narration exactly once.                                                 *)
(***************************************************************************)
ToolIds == {"c1", "c2", "n1"}

Narrations(kinds, id) ==
    {i \in PartsOfType("text-delta") :
        /\ Len(Events[i].delta) = 2
        /\ Events[i].delta[1] \in kinds
        /\ Events[i].delta[2] = id}

\* The records that report the end of the tool call `id`.
ToolEnded(id) ==
    \E i \in DOMAIN Seen :
        IF adapter = "opencode"
        THEN Seen[i].type = "tool_use" /\ Seen[i].callID = id
             /\ Seen[i].status \in {"completed", "error"}
        ELSE adapter = "letta" /\ Seen[i].type = "message"
             /\ Seen[i].message_type = "tool_return" /\ Seen[i].id = id

C7_ToolNarratedOnce ==
    adapter \in {"opencode", "letta"} =>
        \A id \in ToolIds :
            LET done == Narrations({"tool-completed", "tool-failed", "tool-return"}, id)
            IN  /\ Cardinality(Narrations({"tool-start"}, id)) <= 1
                /\ Cardinality(done) <= 1
                /\ (ToolEnded(id) /\ NoTerminalRecord) => Cardinality(done) = 1

(***************************************************************************)
(* C8: when the process closes with exit code 0 and no terminal record was *)
(* recognized, the stream emits text-end if a text block is open, then a   *)
(* finish part with reason stop and the usage accumulated, and ends.       *)
(***************************************************************************)
C8_ImplicitFinishOnExitZero ==
    (proc = "closed" /\ exitCode = "0" /\ NoTerminalRecord) =>
        LET n == Len(Events)
        IN  /\ n >= 1
            /\ Events[n] = Finish("stop", call.totalInputTokens,
                                  call.totalOutputTokens)
            /\ call.textStartSent => (n >= 2 /\ Events[n - 1] = TextEnd)
            /\ call.ctrl \in {"closing", "closed"}

(***************************************************************************)
(* C9: when the process closes with a non-zero exit code, no terminal      *)
(* record was seen and no text was produced, the stream terminates with an *)
(* error outcome rather than with a finish part.                           *)
(***************************************************************************)
C9_NonZeroExitIsError ==
    (proc = "closed" /\ exitCode = "1" /\ Seen = <<>> /\ call.residual = <<>>) =>
        /\ PartsOfType("finish") = {}
        /\ PartsOfType("error") # {}
        /\ call.ctrl = "errored"

(***************************************************************************)
(* C10: when a received record indicates an error status (OpenCode error,  *)
(* Gemini result with status error, Letta result with is_error), the       *)
(* stream terminates with an error and no finish part is emitted.          *)
(***************************************************************************)
C10_ErrorRecordErrorsStream ==
    \A i \in DOMAIN Seen :
        (IsErrorRecord(Seen[i]) /\ \A j \in 1..(i - 1) : ~IsTerminalRecord(Seen[j]))
        => /\ PartsOfType("finish") = {}
           /\ PartsOfType("error") # {}

(***************************************************************************)
(* C11: in generate mode, when the abort signal fires before the close     *)
(* event, the child is sent a termination signal and the call rejects with *)
(* the "Aborted" error, and the later close event does not change that.    *)
(***************************************************************************)
C11_AbortRejectsWithAborted ==
    [][(mode = "generate" /\ mode' = "generate" /\ ncalls' = ncalls) =>
          /\ (aborted' /\ ~aborted /\ proc # "closed") =>
                /\ kills' = kills + 1
                /\ gen'.settled = "rejected"
                /\ gen'.error = "Aborted"
          /\ aborted =>
                /\ gen'.settled = gen.settled
                /\ gen'.error = gen.error
                /\ kills' = kills]_vars

\* C11 as the code has it: the abort listener kills the child once and
\* rejects; the call is rejected with "Aborted" unless the process had already
\* emitted its error event, whose error the call then keeps; and no later
\* callback of the call changes the outcome.
C11_AbortRejectsUnlessFailed ==
    [][(mode = "generate" /\ mode' = "generate" /\ ncalls' = ncalls) =>
          /\ (aborted' /\ ~aborted /\ proc # "closed") =>
                /\ kills' = kills + 1
                /\ gen'.settled = "rejected"
                /\ gen'.error = (IF proc = "failed" THEN "spawn" ELSE "Aborted")
          /\ aborted =>
                /\ gen'.settled = gen.settled
                /\ gen'.error = gen.error
                /\ kills' = kills]_vars

\* An aborted generate call whose process then closed with exit code 0.
C11_Witness ==
    /\ mode = "generate"
    /\ aborted
    /\ proc = "closed"
    /\ exitCode = "0"
    /\ gen.settled = "rejected"
    /\ gen.error = "Aborted"
    /\ kills = 1

(***************************************************************************)
(* C12: a stream call whose abort signal fired ends with an outcome the    *)
(* consumer can tell from the outcome of an un-aborted call whose process  *)
(* wrote the same output and exited with a non-zero code.  The aborted     *)
(* calls looked at are those whose child the signal killed (close code     *)
(* null).                                                                  *)
(***************************************************************************)
\* The un-aborted call: the same output, arriving whole, and exit code 1.
UnabortedExitCall ==
    LET w0 == startStream(World(adapter, NoCall, currentSessionKey,
                                sessionMap, initializedSessions))
        w1 == IF written = <<>> THEN w0 ELSE onStdoutData(w0, written)
    IN  onClose(w1, "1").call

C12_AbortedOutcomeDistinct ==
    (mode = "stream" /\ aborted /\ proc = "closed" /\ exitCode = "null") =>
        call.events # UnabortedExitCall.events

(***************************************************************************)
(* C13: after the abort signal of a stream call has fired, the close       *)
(* handling emits no finish part for that call.                            *)
(***************************************************************************)
C13_NoFinishAfterAbort ==
    [][(mode = "stream" /\ aborted /\ proc # "closed" /\ proc' = "closed") =>
          \A i \in DOMAIN call'.events :
              call'.events[i].type = "finish" => i \in DOMAIN call.events]_vars

(***************************************************************************)
(* C14: when the abort signal fires during a stream call the child is sent *)
(* SIGTERM exactly once, and once the close event of that call has been    *)
(* handled nothing more (no text-delta in particular) is emitted.          *)
(***************************************************************************)
C14_KilledOnceAndQuietAfterClose ==
    [][(mode' = "stream" /\ aborted') =>
          /\ kills' = 1
          /\ (aborted /\ proc = "closed") => call'.events = call.events]_vars

\* An aborted stream call that had emitted text before it was closed.
C14_Witness ==
    /\ mode = "stream"
    /\ aborted
    /\ proc = "closed"
    /\ kills = 1
    /\ \E i \in DOMAIN call.events :
          call.events[i].type = "text-delta" /\ call.events[i].delta = <<"a">>

(***************************************************************************)
(* C15: once the Session Map holds a continuation token for a key, no      *)
(* record a stream call processes changes the token stored for that key:   *)
(* the first identifier seen wins.                                         *)
(***************************************************************************)
C15_FirstIdentifierWins ==
    [][(mode' = "stream" /\ <<call'.seen, call'.residual>> # <<call.seen, call.residual>>) =>
          \A k \in SessionKeys :
              sessionMap[k] # "" => sessionMap'[k] = sessionMap[k]]_vars

\* The map holds the first identifier and a record carrying another one has
\* been processed after it.
C15_Witness ==
    /\ adapter = "opencode"
    /\ currentSessionKey = "K"
    /\ sessionMap["K"] = "s1"
    /\ \E i, j \in DOMAIN Seen :
          i < j /\ Seen[i].sessionID = "s1" /\ Seen[j].sessionID = "s2"

(***************************************************************************)
(* C16: for every call (generate or stream), after any sequence of         *)
(* setSessionKey, clearSession and completed calls, the argument vector    *)
(* holds the vendor's resume flag if and only if, when the call is issued, *)
(* the session store holds a continuation for the current session key      *)
(* (Gemini: the current key is in the initialized set).                    *)
(***************************************************************************)
HoldsContinuation ==
    /\ currentSessionKey # ""
    /\ IF adapter = "gemini" THEN currentSessionKey \in initializedSessions
       ELSE sessionMap[currentSessionKey] # ""

C16_ResumeFlagIffContinuation ==
    [][ncalls' = ncalls + 1 => ((args' # <<>>) <=> HoldsContinuation)]_vars

(***************************************************************************)
(* C17: of two stream calls open at the same time, under every             *)
(* interleaving of their stdout-data and close callbacks, a call emits the *)
(* event sequence it emits when it runs alone on the same input (the same  *)
(* output in the same chunks, the same exit code).  The call looked at is  *)
(* the second one; the first one is the call that interferes.              *)
(***************************************************************************)
\* The stdout callbacks of a call for the output `out` arriving in chunks of
\* the given lengths.
RECURSIVE replay(_, _, _)
replay(w, out, chunks) ==
    IF chunks = <<>> THEN w
    ELSE replay(onStdoutData(w, SubSeq(out, 1, Head(chunks))),
                SubSeq(out, Head(chunks) + 1, Len(out)), Tail(chunks))

\* The second call running alone, from a module state no call has touched.
PeerAlone ==
    LET w0 == startStream(World(adapter, NoCall, currentSessionKey,
                                [k \in SessionKeys |-> ""], {}))
        w1 == replay(w0, peer.written, peer.chunks)
    IN  IF peer.proc = "closed" THEN onClose(w1, peer.exitCode).call ELSE w1.call

C17_ConcurrentCallsIndependent ==
    peer.proc # "none" => peer.call.events = PeerAlone.events

\* Both calls are open, the first one has stored its session id, and the
\* second one has since processed a record of another session and emitted
\* its text.
C17_Witness ==
    /\ adapter = "opencode"
    /\ proc = "running"
    /\ peer.proc = "running"
    /\ sessionMap["K"] = "s1"
    /\ Len(peer.call.seen) = 1
    /\ peer.call.seen[1].sessionID = "s2"
    /\ Len(peer.call.events) = 2

(***************************************************************************)
(* C18: data arriving on the child's standard error never changes the      *)
(* emitted event sequence of a stream call nor the result of a generate    *)
(* call.                                                                   *)
(***************************************************************************)
C18_StderrIsInert ==
    [][stderrSeen' = stderrSeen + 1 =>
          /\ call'.events = call.events
          /\ gen' = gen]_vars

(***************************************************************************)
(* C19: when the process emits its spawn error and then closes, the        *)
(* outcome of the call is the spawn error: a generate call is rejected     *)
(* with it and not with the exit-code error, a stream call has errored     *)
(* with it, and the close handler emits no finish and no second error.     *)
(***************************************************************************)
C19_SpawnErrorIsTheOutcome ==
    [][(proc = "failed" /\ proc' = "closed") =>
          IF mode = "generate"
          THEN gen'.settled = "rejected" /\ gen'.error = "spawn"
          ELSE /\ call'.events = call.events
               /\ call'.ctrl = "errored"
               /\ call.events[Len(call.events)] = StreamError("spawn")
               /\ Cardinality({i \in DOMAIN call.events :
                                  IsTerminalPart(call.events[i])}) = 1]_vars

\* C19 as the code has it: the error event makes the spawn error the outcome
\* of the call, unless the abort signal of a generate call fired before it,
\* whose "Aborted" rejection the call then keeps; the close event that follows
\* changes nothing: no finish, no second error, the same rejection.
C19_SpawnErrorUnlessAborted ==
    [][/\ (proc = "running" /\ proc' = "failed") =>
             IF mode = "generate"
             THEN /\ gen'.settled = "rejected"
                  /\ gen'.error = (IF aborted THEN "Aborted" ELSE "spawn")
             ELSE /\ call'.ctrl = "errored"
                  /\ call'.events[Len(call'.events)] = StreamError("spawn")
       /\ (proc = "failed" /\ proc' = "closed") =>
             IF mode = "generate"
             THEN /\ gen'.settled = "rejected"
                  /\ gen'.error = gen.error
                  /\ gen.error \in {"spawn", "Aborted"}
             ELSE /\ call'.events = call.events
                  /\ call'.ctrl = "errored"
                  /\ call.events[Len(call.events)] = StreamError("spawn")
                  /\ Cardinality({i \in DOMAIN call.events :
                                     IsTerminalPart(call.events[i])}) = 1]_vars

\* A stream call whose process failed to spawn and closed.
C19_Witness ==
    /\ mode = "stream"
    /\ proc = "closed"
    /\ exitCode = "1"
    /\ call.ctrl = "errored"
    /\ call.events # <<>>
    /\ call.events[Len(call.events)] = StreamError("spawn")

(***************************************************************************)
(* C20: in a stream call of every adapter, blank lines and lines that are  *)
(* not JSON (and, for Gemini, banner lines) inserted between the valid     *)
(* records leave the emitted events, the usage totals and the session map  *)
(* unchanged: the output and the same output without those lines give the  *)
(* same call.                                                              *)
(***************************************************************************)
\* A line the claim allows to be inserted.
IsNoise(line) ==
    LET t == trim(line)
    IN  \/ t = <<>>
        \/ ~JsonValid(t)
        \/ adapter = "gemini" /\ Head(t).k = "banner"

\* The output without its complete noise lines; an unfinished last line stays.
RECURSIVE dropNoise(_, _)
dropNoise(out, piece) ==
    IF out = <<>> THEN piece
    ELSE IF Head(out) = NL
         THEN (IF IsNoise(piece) THEN <<>> ELSE Append(piece, NL))
              \o dropNoise(Tail(out), <<>>)
         ELSE dropNoise(Tail(out), Append(piece, Head(out)))

\* The world a call on a fresh module reaches when given `out` as one chunk.
OneChunkWorld(out) ==
    LET w0 == startStream(World(adapter, NoCall, currentSessionKey,
                                [k \in SessionKeys |-> ""], {}))
    IN  IF out = <<>> THEN w0 ELSE onStdoutData(w0, out)

C20_NoiseLinesAreInert ==
    (mode = "stream" /\ proc # "none") =>
        LET noisy == OneChunkWorld(written)
            clean == OneChunkWorld(dropNoise(written, <<>>))
        IN  /\ noisy.call.events = clean.call.events
            /\ noisy.call.totalInputTokens = clean.call.totalInputTokens
            /\ noisy.call.totalOutputTokens = clean.call.totalOutputTokens
            /\ noisy.sessionMap = clean.sessionMap

\* A noise line between two records that both produced their parts.
C20_Witness ==
    /\ mode = "stream"
    /\ proc = "running"
    /\ stdout = <<>>
    /\ currentSessionKey = "K"
    /\ \E noise \in {JunkLine, BlankLine, <<Banner, NL>>} :
          /\ IsNoise(SubSeq(noise, 1, Len(noise) - 1))
          /\ written = Line(IF adapter = "gemini"
                            THEN gmMessageRec("assistant", FALSE)
                            ELSE IF adapter = "letta" THEN ltAssistantRec
                            ELSE ocTextRec("s2"), <<a>>)
                       \o noise
                       \o Line(IF adapter = "gemini"
                               THEN gmResultRec("success", TRUE, 2, 1)
                               ELSE IF adapter = "letta"
                               THEN ltResultRec(FALSE, "s1", TRUE, 3, 0)
                               ELSE ocStepFinishRec("stop", 2, 1), <<>>)
    /\ \E i \in DOMAIN call.events : call.events[i].type = "text-delta"
    /\ call.events[Len(call.events)].type = "finish"

(***************************************************************************)
(* C21: for a conversation with at least one user message, the flattened   *)
(* prompt is the text of the most recent user message (its text parts      *)
(* joined by newlines), preceded by nothing but the wrapper of a system    *)
(* message; no other message's content appears in it.                      *)
(***************************************************************************)
\* The positions of the user messages of the conversation.
UserPositions == {i \in DOMAIN prompt.msgs : prompt.msgs[i].role = "user"}

\* The most recent user message.
LastUser ==
    prompt.msgs[CHOOSE i \in UserPositions : \A j \in UserPositions : j <= i]

\* The text of a message: its string, or its text parts joined by newlines.
TextOf(msg) ==
    IF msg.content.kind = "string" THEN msg.content.text
    ELSE IF msg.content.kind = "array" THEN join(textsOf(msg.content.parts))
    ELSE <<>>

\* The wrappers the system messages of the conversation can give.
Wrappers ==
    { systemWrapper(TextOf(prompt.msgs[i])) :
          i \in {j \in DOMAIN prompt.msgs : prompt.msgs[j].role = "system"} }

C21_BodyIsLastUserMessage ==
    (message.returned /\ prompt.kind = "array" /\ UserPositions # {}) =>
        \/ message.text = TextOf(LastUser)
        \/ \E wrapper \in Wrappers : message.text = wrapper \o TextOf(LastUser)

(***************************************************************************)
(* C22: in generate mode of the OpenCode and Letta adapters, for a given   *)
(* stdout content and exit code 0, the resolved text and usage are those   *)
(* of the content arriving in one chunk, however the content was split in  *)
(* chunks.                                                                 *)
(***************************************************************************)
\* The generate call that is given the whole output as one chunk and a zero
\* exit code.
OneChunkGen ==
    LET w0 == World(adapter, NoGen, currentSessionKey,
                    [k \in SessionKeys |-> ""], {})
    IN  onGenClose(IF written = <<>> THEN w0 ELSE onGenData(w0, written), "0").call

C22_GenerateChunkingIrrelevant ==
    (/\ mode = "generate"
     /\ adapter \in {"opencode", "letta"}
     /\ proc = "closed"
     /\ exitCode = "0"
     /\ ~aborted
     /\ gen.settled = "resolved") =>
        /\ gen.text = OneChunkGen.text
        /\ gen.promptTokens = OneChunkGen.promptTokens
        /\ gen.completionTokens = OneChunkGen.completionTokens

(***************************************************************************)
(* C23: in the adapters that diff cumulative text (OpenCode text records,  *)
(* Gemini assistant message records flagged delta), a record whose string  *)
(* does not start with the previously seen string makes the call emit a    *)
(* text-delta whose payload is the whole new string, and the new string    *)
(* becomes the reference of the next diff.                                 *)
(***************************************************************************)
\* The records that are diffed, their string, and the reference a call holds.
IsDiffedRecord(r) ==
    IF adapter = "opencode" THEN r.type = "text"
    ELSE r.type = "message" /\ r.role = "assistant" /\ r.delta

DiffedString(r) == IF adapter = "opencode" THEN r.text ELSE r.content

Reference(c) == IF adapter = "opencode" THEN c.lastTextContent ELSE c.lastContent

C23_NonExtendingTextIsWholeDelta ==
    [][(/\ mode' = "stream"
        /\ adapter \in {"opencode", "gemini"}
        /\ call.ctrl = "readable"
        /\ Len(NewlySeen) = 1
        /\ IsDiffedRecord(NewlySeen[1])
        /\ DiffedString(NewlySeen[1]) # <<>>
        /\ ~startsWith(DiffedString(NewlySeen[1]), Reference(call)))
       => /\ Len(call'.events) > Len(call.events)
          /\ call'.events[Len(call'.events)] = TextDelta(DiffedString(NewlySeen[1]))
          /\ Reference(call') = DiffedString(NewlySeen[1])]_vars

(***************************************************************************)
(* C24: in a stream call in which no error record and no non-zero exit has *)
(* occurred, processing the terminal record emits text-end iff text-start  *)
(* was emitted, then one finish with reason stop whose usage is the totals *)
(* accumulated over the call, the terminal record's own included, and      *)
(* closes the stream.                                                      *)
(***************************************************************************)
\* The parts a step has added to the stream.
NewParts == SubSeq(call'.events, Len(call.events) + 1, Len(call'.events))

\* The totals of the call once the terminal record r is counted.
TerminalInput(r) ==
    IF adapter = "opencode" THEN call.totalInputTokens + r.input
    ELSE IF adapter = "gemini" THEN r.input_tokens
    ELSE IF r.usage THEN r.prompt_tokens ELSE call.totalInputTokens

TerminalOutput(r) ==
    IF adapter = "opencode" THEN call.totalOutputTokens + r.output
    ELSE IF adapter = "gemini" THEN r.output_tokens
    ELSE IF r.usage THEN r.completion_tokens ELSE call.totalOutputTokens

C24_TerminalRecordFinishes ==
    [][(/\ mode' = "stream"
        /\ proc' = "running"
        /\ call.ctrl = "readable"
        /\ ~call.streamClosed
        /\ Len(NewlySeen) = 1
        /\ IsTerminalRecord(NewlySeen[1])
        /\ ~IsErrorRecord(NewlySeen[1]))
       => /\ NewParts # <<>>
          /\ NewParts[Len(NewParts)] =
                Finish("stop", TerminalInput(NewlySeen[1]), TerminalOutput(NewlySeen[1]))
          /\ (\E i \in DOMAIN call'.events : call'.events[i] = TextStart)
                <=> (Len(NewParts) >= 2 /\ NewParts[Len(NewParts) - 1] = TextEnd)
          /\ Cardinality({i \in DOMAIN call'.events :
                             call'.events[i].type = "finish"}) = 1
          /\ call'.ctrl \in {"closing", "closed"}]_vars

(***************************************************************************)
(* C25: in an OpenCode stream call a step_finish record whose reason is    *)
(* not "stop" adds its tokens to the totals, emits no part and leaves the  *)
(* stream open; while the process runs, a finish part has been emitted     *)
(* only if a step_finish record with reason "stop" was processed.          *)
(***************************************************************************)
C25_OnlyStopTerminates ==
    [][(adapter = "opencode" /\ mode' = "stream") =>
          /\ (/\ call.ctrl = "readable"
              /\ ~call.streamClosed
              /\ Len(NewlySeen) = 1
              /\ NewlySeen[1].type = "step_finish"
              /\ NewlySeen[1].reason # "stop")
             => /\ call'.totalInputTokens = call.totalInputTokens + NewlySeen[1].input
                /\ call'.totalOutputTokens = call.totalOutputTokens + NewlySeen[1].output
                /\ call'.events = call.events
                /\ call'.ctrl = "readable"
                /\ ~call'.streamClosed
          /\ (proc' = "running" /\ \E i \in DOMAIN call'.events :
                                       call'.events[i].type = "finish")
             => \E i \in DOMAIN call'.seen :
                   /\ call'.seen[i].type = "step_finish"
                   /\ call'.seen[i].reason = "stop"]_vars

\* A tool-calls step, then a text record that is still emitted, then the
\* stop step whose finish carries the tokens of both steps.
C25_Witness ==
    /\ adapter = "opencode"
    /\ mode = "stream"
    /\ Len(Seen) = 3
    /\ Seen[1].type = "step_finish" /\ Seen[1].reason = "tool-calls"
    /\ Seen[2].type = "text"
    /\ Seen[3].type = "step_finish" /\ Seen[3].reason = "stop"
    /\ Events = <<TextStart, TextDelta(<<"a">>), TextEnd, Finish("stop", 3, 3)>>

(***************************************************************************)
(* C26: in a Letta stream call, when the terminal result record carries    *)
(* usage totals, the usage of the emitted finish part is the result's      *)
(* prompt and completion token counts, whatever the earlier                *)
(* usage_statistics records set.                                           *)
(***************************************************************************)
C26_TerminalUsageReplaces ==
    [][(/\ adapter = "letta"
        /\ mode' = "stream"
        /\ call.ctrl = "readable"
        /\ ~call.streamClosed
        /\ Len(NewlySeen) = 1
        /\ NewlySeen[1].type = "result"
        /\ NewlySeen[1].usage)
       => /\ NewParts # <<>>
          /\ NewParts[Len(NewParts)].type = "finish"
          /\ NewParts[Len(NewParts)].inputTokens = NewlySeen[1].prompt_tokens
          /\ NewParts[Len(NewParts)].outputTokens = NewlySeen[1].completion_tokens]_vars

(***************************************************************************)
(* C27: in the adapters that track tool activity (OpenCode, Letta), once a *)
(* record gives a tool invocation its terminal status (OpenCode completed  *)
(* or error, Letta tool_return) the invocation is no longer in the call's  *)
(* tracking map.                                                           *)
(***************************************************************************)
\* The records that end a tool invocation.
EndsTool(r) ==
    IF adapter = "opencode"
    THEN r.type = "tool_use" /\ r.status \in {"completed", "error"}
    ELSE adapter = "letta" /\ r.type = "message" /\ r.message_type = "tool_return"

EndedTool(r) == IF adapter = "opencode" THEN r.callID ELSE r.id

C27_EndedToolsLeaveTheMap ==
    [][(/\ mode' = "stream"
        /\ call.ctrl = "readable"
        /\ Len(NewlySeen) = 1
        /\ EndsTool(NewlySeen[1]))
       => EndedTool(NewlySeen[1]) \notin call'.activeTools]_vars

(***************************************************************************)
(* C28: in generate mode of every adapter, when the process closes with a  *)
(* non-zero exit code after some text output had been captured, the call   *)
(* resolves with the captured text instead of rejecting with the           *)
(* exit-code error.                                                        *)
(***************************************************************************)
C28_PartialOutputIsReturned ==
    (/\ mode = "generate"
     /\ proc = "closed"
     /\ exitCode = "1"
     /\ ~aborted
     /\ gen.output # <<>>) =>
        /\ gen.settled = "resolved"
        /\ gen.text = gen.output

(***************************************************************************)
(* C29: in OpenCode generate mode, when an error record is received on     *)
(* stdout the call is reported as failed: the promise rejects, also when   *)
(* the process afterwards exits with code 0.                               *)
(***************************************************************************)
\* The process has written an error record.
WroteErrorRecord ==
    \E i \in DOMAIN written : written[i].k = "json" /\ written[i].r.type = "error"

C29_ErrorRecordRejects ==
    (/\ adapter = "opencode"
     /\ mode = "generate"
     /\ proc = "closed"
     /\ ~aborted
     /\ WroteErrorRecord) =>
        gen.settled = "rejected"

(***************************************************************************)
(* C30: for every call of every adapter, whenever the call's abort signal  *)
(* is in the aborted state the child process spawned for the call has been *)
(* sent a termination signal, also when the signal was aborted already     *)
(* when the call was issued.                                               *)
(***************************************************************************)
C30_AbortedMeansKilled ==
    (proc # "none" /\ (aborted \/ abortedAtIssue)) => kills >= 1

(***************************************************************************)
(* C31: a session map entry is created only by a call that ends            *)
(* successfully: the first call of a module, once it has ended in an error *)
(* (an error record, a non-zero exit code, a spawn error), has left the    *)
(* session map without an entry.                                           *)
(***************************************************************************)
\* The stream call has ended in an error.
EndedInError ==
    /\ proc = "closed"
    /\ \/ exitCode # "0"
       \/ \E i \in DOMAIN call.events : call.events[i].type = "error"

C31_FailedCallStoresNothing ==
    (mode = "stream" /\ ncalls = 1 /\ EndedInError) =>
        \A k \in SessionKeys : sessionMap[k] = ""

(***************************************************************************)
(* C32: in the Gemini adapter a key enters the initialized set only in a   *)
(* call that completed a turn: a stream call that has processed a result   *)
(* record with status success, a generate call that resolved.  A generate  *)
(* call that rejects never marks its key.                                  *)
(***************************************************************************)
\* The stream call has processed a successful result record.
SuccessProcessed(c) ==
    \/ \E i \in DOMAIN c.seen : c.seen[i].type = "result" /\ c.seen[i].status = "success"
    \/ \E i \in DOMAIN c.residual :
          c.residual[i].type = "result" /\ c.residual[i].status = "success"

C32_OnlyCompletedTurnsMark ==
    [][(adapter = "gemini" /\ initializedSessions' # initializedSessions) =>
          IF mode' = "generate" THEN gen'.settled = "resolved"
          ELSE SuccessProcessed(call')]_vars

(***************************************************************************)
(* C33: when the caller sets the session key before each call and issues   *)
(* the next call only after the stream of the previous one has delivered   *)
(* its finish or error, every identifier stored in the session map under a *)
(* key was received from the process of a call issued under that key.      *)
(***************************************************************************)
\* The identifiers a process has written.
IdOf(r) ==
    IF "sessionID" \in DOMAIN r THEN r.sessionID
    ELSE IF "agent_id" \in DOMAIN r THEN r.agent_id
    ELSE ""

IdsIn(out) == { IdOf(out[i].r) : i \in {j \in DOMAIN out : out[j].k = "json"} }

C33_IdentifiersComeFromOwnCalls ==
    /\ sessionMap["K"] # "" => sessionMap["K"] \in IdsIn(written)
    /\ sessionMap["L"] # "" => sessionMap["L"] \in IdsIn(peer.written)

\* C34: once clearSession(K) has returned, the session map has no entry for K
\* until a new call is issued, although the call issued under K before the
\* clear is still delivering records; and the clear leaves the other keys'
\* entries as they were.  In the first call, issued under K, an empty entry
\* for K after a record carrying an identifier was processed is the entry
\* that clearSession(K) deleted.
ClearedK ==
    /\ currentSessionKey = "K"
    /\ sessionMap["K"] = ""
    /\ \E i \in DOMAIN call.seen : IdOf(call.seen[i]) # ""

C34_ClearedEntryStaysAbsent ==
    [][/\ (ClearedK /\ peer.proc = "none" /\ peer'.proc = "none")
            => sessionMap'["K"] = ""
       /\ \A k \in LateKeys :
            (sessionMap[k] # "" /\ sessionMap'[k] = "")
            => \A j \in LateKeys \ {k} : sessionMap'[j] = sessionMap[j]]_vars

\* C35: in stream mode, for a complete output and an exit code, the emitted
\* parts and the session store are the same whether or not the final record
\* is followed by a newline: the record left in the residual buffer at close
\* is processed like any other record of its type.
EndsInBareRecord(out) == out # <<>> /\ out[Len(out)].k \in {"json", "end"}

C35_FinalNewlineIrrelevant ==
    (mode = "stream" /\ proc = "closed" /\ EndsInBareRecord(written)) =>
        LET bare == onClose(OneChunkWorld(written), exitCode)
            terminated == onClose(OneChunkWorld(Append(written, NL)), exitCode)
        IN  /\ bare.call.events = terminated.call.events
            /\ bare.sessionMap = terminated.sessionMap

\* C36: for a conversation that contains a system-role message, the prompt
\* extractUserMessage returns starts with that message's text wrapped in the
\* <system_instructions> delimiter pair and continues with the user body;
\* for a conversation without a system message the prompt has no wrapper.
SystemPositions == {i \in DOMAIN prompt.msgs : prompt.msgs[i].role = "system"}

UserBody == fallback(prompt.msgs, userMessageFrom(prompt.msgs, Len(prompt.msgs)))

HasDelimiter(text) ==
    \E i \in DOMAIN text : text[i] \in {"<system_instructions>", "</system_instructions>"}

C36_SystemMessageIsWrapped ==
    (message.returned /\ prompt.kind = "array") =>
        IF SystemPositions # {}
        THEN \E wrapper \in Wrappers : message.text = wrapper \o UserBody
        ELSE ~HasDelimiter(message.text)

\* C37: parseOpenCodeModels returns, in input order, exactly one entry for
\* each non-blank output line that contains a slash and does not start with
\* `opencode/`; the entry's model id is the whole trimmed line and its
\* provider is the part before the first slash; no other line yields an
\* entry.
IsModelLine(line) ==
    LET t == trim(line)
    IN  /\ t # <<>>
        /\ \E i \in DOMAIN t : t[i] = Ch("/")
        /\ ~(Len(t) >= 2 /\ t[1] = Name("opencode") /\ t[2] = Ch("/"))

ModelLines == SelectSeq(split(output), IsModelLine)

BeforeFirstSlash(t) ==
    LET first == CHOOSE i \in DOMAIN t :
                     t[i] = Ch("/") /\ \A j \in 1..(i - 1) : t[j] # Ch("/")
    IN  SubSeq(t, 1, first - 1)

C37_OneEntryPerModelLine ==
    models.returned =>
        /\ Len(models.list) = Len(ModelLines)
        /\ \A i \in DOMAIN ModelLines :
              /\ models.list[i].model = trim(ModelLines[i])
              /\ models.list[i].provider = BeforeFirstSlash(trim(ModelLines[i]))

C37_Witness ==
    /\ models.returned
    /\ Len(models.list) = 1
    /\ Len(split(output)) = 2
    /\ \E i \in DOMAIN split(output) :
          startsWith(trim(split(output)[i]), <<Name("opencode"), Ch("/")>>)

\* C38: in a Letta stream call in which no assistant message content was
\* streamed, the text of the terminal result record is emitted as a
\* text-delta part before the text-end part.
IsAssistantContent(r) ==
    /\ r.type = "message"
    /\ r.message_type = "assistant_message"
    /\ r.content # <<>>

FirstResult(i) ==
    /\ Seen[i].type = "result"
    /\ \A j \in 1..(i - 1) : Seen[j].type # "result"

C38_ResultTextIsTheFallback ==
    (adapter = "letta" /\ mode = "stream") =>
        \A i \in DOMAIN Seen :
            (/\ FirstResult(i)
             /\ Seen[i].result # <<>>
             /\ \A j \in 1..(i - 1) : ~IsAssistantContent(Seen[j]))
            => \E d, e \in DOMAIN Events :
                  /\ d < e
                  /\ Events[d].type = "text-delta"
                  /\ Events[d].delta = Seen[i].result
                  /\ Events[e].type = "text-end"

\* C39: in every run of streamGeminiCliResponse (stdout lines and then the
\* close event with some exit code, or a spawn error), exactly one of
\* onComplete and onError is invoked, exactly once: never more than one
\* invocation, and one invocation once the process has closed.
Invocations == Len(geminiCli.onComplete) + Len(geminiCli.onError)

C39_ExactlyOneOutcome ==
    /\ Invocations <= 1
    /\ geminiCli.proc = "closed" => Invocations = 1

\* C40: in a Letta stream call, no callback attempts to enqueue a part
\* outside the parser's guarded block once the stream is closed or errored;
\* in particular, standard error text matching the authentication patterns
\* that arrives after the terminal finish enqueues no text-delta (the
\* attempt would throw out of the callback).
C40_NoEnqueueAfterTheEnd ==
    (adapter = "letta" /\ mode = "stream") => ~call.uncaught

====
